---- MODULE Spec2Model ----
(***************************************************************************)
(* A model of karma (kustomizer): the directory walker, the skip-rule     *)
(* matcher, the .gitignore matcher chain and the reconciliation of the    *)
(* resources list of each kustomization manifest.                       *)
(*                                                                         *)
(* Go strings are sequences of one-character strings, so that prefixes,   *)
(* suffixes, separators and the byte order used by sort.Strings are       *)
(* computed and not assumed.  A path is the slash-joined string the code  *)
(* builds from it.                                                         *)
(***************************************************************************)
EXTENDS Integers, Sequences, FiniteSets, TLC

VARIABLES
    opts,       \* Processor.opts: Skip, UseGitIgnore, IncludeDot, DirSlash, ResourceOrder
    fs,         \* the tree under the base: directories, files, .gitignore lines
    disk,       \* the manifest files: directory -> file name -> content (or NoFile)
    stack,      \* the walkDir call stack, innermost frame first
    events,     \* the logger calls of the current Process call, in order
    io,         \* the filesystem operations of the current Process call, in order
    results,    \* the ResourceStats returned by each finished Process call
    ctx,        \* the context.Context handed to Process: cancelled or not
    fault,      \* the one operation the filesystem refuses in this behaviour, if any
    run,        \* Run: its position, totalStats, the summary logged, the error returned
    call,       \* pure-function harness: the arguments drawn
    ret         \* pure-function harness: the values returned

vars == <<opts, fs, disk, stack, events, io, results, ctx, fault, run, call, ret>>
walkVars == <<opts, fs, disk, stack, events, io, results, ctx, fault, run>>

-----------------------------------------------------------------------------
(* Strings *)

\* The characters of the model in byte order (what Go's string comparison uses).
Ascii == <<"\t", "\n", "\r", " ", "!", "\"", "#", "$", "%", "&", "'", "(", ")", "*", "+", ",", "-", ".", "/", "0", "1", "2", "3", "4", "5", "6", "7", "8", "9", ":", ";", "<", "=", ">", "?", "@", "A", "B", "C", "D", "E", "F", "G", "H", "I", "J", "K", "L", "M", "N", "O", "P", "Q", "R", "S", "T", "U", "V", "W", "X", "Y", "Z", "[", "\\", "]", "^", "_", "a", "b", "c", "d", "e", "f", "g", "h", "i", "j", "k", "l", "m", "n", "o", "p", "q", "r", "s", "t", "u", "v", "w", "x", "y", "z", "{", "|", "}", "~">>

Code == [c \in {Ascii[i] : i \in 1..Len(Ascii)} |-> CHOOSE i \in 1..Len(Ascii) : Ascii[i] = c]

Upper == <<"A", "B", "C", "D", "E", "F", "G", "H", "I", "J", "K", "L", "M", "N", "O", "P", "Q", "R", "S", "T", "U", "V", "W", "X", "Y", "Z">>
Lower == <<"a", "b", "c", "d", "e", "f", "g", "h", "i", "j", "k", "l", "m", "n", "o", "p", "q", "r", "s", "t", "u", "v", "w", "x", "y", "z">>
Space == {" ", "\t", "\n", "\r"}

\* a < b in Go: bytewise lexicographic order.
StrLess(a, b) ==
    \E i \in 1..Len(b) :
        /\ i <= Len(a) + 1
        /\ \A j \in 1..(i - 1) : a[j] = b[j]
        /\ (i = Len(a) + 1 \/ Code[a[i]] < Code[b[i]])

HasPrefix(s, p) == Len(p) <= Len(s) /\ SubSeq(s, 1, Len(p)) = p
HasSuffix(s, p) == Len(p) <= Len(s) /\ SubSeq(s, Len(s) - Len(p) + 1, Len(s)) = p
TrimSuffix(s, p) == IF HasSuffix(s, p) THEN SubSeq(s, 1, Len(s) - Len(p)) ELSE s
Contains(s, c) == \E i \in 1..Len(s) : s[i] = c
ContainsAny(s, cs) == \E i \in 1..Len(s) : s[i] \in cs

\* strings.TrimRight(s, "/"): every trailing slash is removed.
RECURSIVE TrimRightSlash(_)
TrimRightSlash(s) ==
    IF s # <<>> /\ s[Len(s)] = "/" THEN TrimRightSlash(SubSeq(s, 1, Len(s) - 1)) ELSE s

RECURSIVE TrimLeftSpace(_)
TrimLeftSpace(s) == IF s # <<>> /\ Head(s) \in Space THEN TrimLeftSpace(Tail(s)) ELSE s
RECURSIVE TrimRightSpace(_)
TrimRightSpace(s) ==
    IF s # <<>> /\ s[Len(s)] \in Space THEN TrimRightSpace(SubSeq(s, 1, Len(s) - 1)) ELSE s
TrimSpace(s) == TrimRightSpace(TrimLeftSpace(s))

ToLowerChar(c) ==
    IF \E i \in 1..Len(Upper) : Upper[i] = c
    THEN Lower[CHOOSE i \in 1..Len(Upper) : Upper[i] = c]
    ELSE c
ToLower(s) == [i \in 1..Len(s) |-> ToLowerChar(s[i])]

\* sort.Strings: ascending byte order, duplicates kept.
RECURSIVE InsertSorted(_, _)
InsertSorted(s, x) ==
    IF s = <<>> THEN <<x>>
    ELSE IF StrLess(x, Head(s)) THEN <<x>> \o s
    ELSE <<Head(s)>> \o InsertSorted(Tail(s), x)
\* Mutant: the list is left in the order it came in.
SortStrings_Keep(s) == s

RECURSIVE SortStrings(_)
SortStrings(s) == IF s = <<>> THEN <<>> ELSE InsertSorted(SortStrings(Tail(s)), Head(s))

Range(s) == {s[i] : i \in 1..Len(s)}
SelectSeqIn(s, S) == SelectSeq(s, LAMBDA x : x \in S)

\* The literals of the source.
HttpPrefix == <<"h", "t", "t", "p", ":", "/", "/">>
HttpsPrefix == <<"h", "t", "t", "p", "s", ":", "/", "/">>
KustomizationYaml == <<"k", "u", "s", "t", "o", "m", "i", "z", "a", "t", "i", "o", "n", ".", "y", "a", "m", "l">>
KustomizationYml == <<"k", "u", "s", "t", "o", "m", "i", "z", "a", "t", "i", "o", "n", ".", "y", "m", "l">>
GitignoreName == <<".", "g", "i", "t", "i", "g", "n", "o", "r", "e">>
resourceGroupRemote == <<"r", "e", "m", "o", "t", "e">>
resourceGroupDirs == <<"d", "i", "r", "s">>
resourceGroupFiles == <<"f", "i", "l", "e", "s">>
ResourcesKey == <<"r", "e", "s", "o", "u", "r", "c", "e", "s">>
ApiVersionKey == <<"a", "p", "i", "V", "e", "r", "s", "i", "o", "n">>
KindKey == <<"k", "i", "n", "d">>
ApiVersionValue == <<"k", "u", "s", "t", "o", "m", "i", "z", "e", ".", "c", "o", "n", "f", "i", "g", ".", "k", "8", "s", ".", "i", "o", "/", "v", "1", "b", "e", "t", "a", "1">>
KindValue == <<"K", "u", "s", "t", "o", "m", "i", "z", "a", "t", "i", "o", "n">>
YamlExt == <<".", "y", "a", "m", "l">>
YmlExt == <<".", "y", "m", "l">>
StrTag == <<"!", "!", "s", "t", "r">>
GlobChars == {"*", "?", "[", "]"}

-----------------------------------------------------------------------------
(* Resource order and merge *)

defaultResourceOrder == <<resourceGroupRemote, resourceGroupDirs, resourceGroupFiles>>

DefaultResourceOrder == defaultResourceOrder

\* The first loop of normalizeResourceOrder: the recognized groups in order of
\* first occurrence.
RECURSIVE normalizeSeen(_, _)
normalizeSeen(parts, out) ==
    IF parts = <<>> THEN out
    ELSE LET group == ToLower(TrimSpace(Head(parts)))
         IN  IF group = <<>> THEN normalizeSeen(Tail(parts), out)
             ELSE IF group \notin Range(defaultResourceOrder) THEN normalizeSeen(Tail(parts), out)
             ELSE IF group \in Range(out) THEN normalizeSeen(Tail(parts), out)
             ELSE normalizeSeen(Tail(parts), Append(out, group))

\* Mutant: the groups not named are left out.
addMissing_None(seen) == seen

\* The second loop: the groups not seen are added in default order.
addMissing(seen) == seen \o SelectSeq(defaultResourceOrder, LAMBDA g : g \notin Range(seen))

orDefault(out) == IF Len(out) = 0 THEN DefaultResourceOrder ELSE out

normalizeResourceOrder(parts) ==
    IF Len(parts) = 0 THEN DefaultResourceOrder
    ELSE orDefault(addMissing(normalizeSeen(parts, <<>>)))

\* strings.Split(value, ","): the pieces between the commas, an empty string
\* giving one empty piece.
RECURSIVE SplitComma(_)
SplitComma(value) ==
    IF ~Contains(value, ",") THEN <<value>>
    ELSE LET i == CHOOSE k \in 1..Len(value) :
                      value[k] = "," /\ \A j \in 1..(k - 1) : value[j] # ","
         IN  <<SubSeq(value, 1, i - 1)>> \o SplitComma(SubSeq(value, i + 1, Len(value)))

ParseResourceOrder(value) ==
    IF TrimSpace(value) = <<>> THEN DefaultResourceOrder
    ELSE normalizeResourceOrder(SplitComma(value))

\* Mutant: any entry with a separator counts as remote.
isRemoteResource_AnySlash(entry) == Contains(entry, "/")

isRemoteResource(entry) == HasPrefix(entry, HttpPrefix) \/ HasPrefix(entry, HttpsPrefix)

\* Mutant: repeated entries are kept.
DedupPreserve_KeepAll(in) == in

RECURSIVE DedupPreserve(_)
DedupPreserve(in) ==
    IF in = <<>> THEN <<>>
    ELSE LET front == DedupPreserve(SubSeq(in, 1, Len(in) - 1))
             v == in[Len(in)]
         IN  IF v \in Range(front) THEN front ELSE Append(front, v)

\* Mutant: directories are listed without the slash.
decorateSubdirs_Never(o, subdirs) == subdirs

decorateSubdirs(o, subdirs) ==
    IF ~o.DirSlash THEN subdirs
    ELSE [i \in 1..Len(subdirs) |->
            IF HasSuffix(subdirs[i], <<"/">>)
            THEN TrimSuffix(subdirs[i], <<"/">>) \o <<"/">>
            ELSE subdirs[i] \o <<"/">>]

\* The group of the switch in mergeResources.
RECURSIVE concatGroups(_, _, _, _)
concatGroups(order, remote, dirs, files) ==
    IF order = <<>> THEN <<>>
    ELSE (CASE Head(order) = resourceGroupRemote -> remote
            [] Head(order) = resourceGroupDirs -> dirs
            [] Head(order) = resourceGroupFiles -> files
            [] OTHER -> <<>>)
         \o concatGroups(Tail(order), remote, dirs, files)

mergeResources(o, existing, dirEntries, fileEntries) ==
    LET dirs == SortStrings(decorateSubdirs(o, dirEntries))
        files == SortStrings(fileEntries)
        remote == SortStrings(SelectSeq(existing, isRemoteResource))
        order == normalizeResourceOrder(o.ResourceOrder)
    IN  DedupPreserve(concatGroups(order, remote, dirs, files))

-----------------------------------------------------------------------------
(* Diff and reorder detection *)

Count(s, e) == Cardinality({i \in 1..Len(s) : s[i] = e})

\* Mutant: every entry of new counts as added.
diffAdded_All(counts, new) == new

\* The second loop of diffEntries: entries of new not covered by counts.
RECURSIVE diffAdded(_, _)
diffAdded(counts, new) ==
    IF new = <<>> THEN <<>>
    ELSE LET entry == Head(new)
         IN  IF entry \in DOMAIN counts /\ counts[entry] > 0
             THEN diffAdded([counts EXCEPT ![entry] = @ - 1], Tail(new))
             ELSE <<entry>> \o diffAdded(counts, Tail(new))

\* diffEntries(old, new): added in order of new; removed is built by ranging
\* over a map, so its order is not fixed: it is kept as entry -> multiplicity.
diffEntries(old, new) ==
    LET counts == [e \in Range(old) |-> Count(old, e)]
    IN  [added |-> diffAdded(counts, new),
         removed |-> [e \in {x \in Range(old) : Count(old, x) > Count(new, x)} |->
                         Count(old, e) - Count(new, e)]]

RECURSIVE SumOver(_, _)
SumOver(f, S) ==
    IF S = {} THEN 0
    ELSE LET x == CHOOSE y \in S : TRUE IN f[x] + SumOver(f, S \ {x})

\* len(removed)
RemovedLen(d) == SumOver(d.removed, DOMAIN d.removed)

\* indexes[entry]: the positions of entry in old, counted from 0 as in Go.
Positions(old, entry) ==
    LET idx == {i \in 1..Len(old) : old[i] = entry}
    IN  [k \in 1..Cardinality(idx) |->
            (CHOOSE i \in idx : Cardinality({j \in idx : j < i}) = k - 1) - 1]

\* The loop over new in orderChanged.
RECURSIVE orderScan(_, _, _, _)
orderScan(old, new, consumed, prev) ==
    IF new = <<>> THEN FALSE
    ELSE LET entry == Head(new)
             list == Positions(old, entry)
         IN  IF Len(list) = 0 THEN orderScan(old, Tail(new), consumed, prev)
             ELSE IF consumed[entry] >= Len(list)
                  THEN orderScan(old, Tail(new), consumed, prev)
             ELSE LET pos == list[consumed[entry] + 1]
                  IN  IF prev > pos /\ prev # -1 THEN TRUE
                      ELSE orderScan(old, Tail(new),
                                     [consumed EXCEPT ![entry] = @ + 1], pos)

\* Mutant: no reorder is ever detected.
orderChanged_Never(old, new) == FALSE

\* Mutant: entries are compared position by position.
orderChanged_Positional(old, new) ==
    \E i \in 1..Len(old) : i <= Len(new) /\ old[i] # new[i]

orderChanged(old, new) == orderScan(old, new, [e \in Range(old) |-> 0], -1)

-----------------------------------------------------------------------------
(* The manifest document: yaml.Node trees *)

\* A yaml.Node: Kind, Tag, Value, Content and the comment attached to it (the
\* formatting a rewrite has to keep).  A mapping node holds its keys and
\* values alternately in Content, as yaml.v3 does.
Node(kind, tag, value, content, comment) ==
    [Kind |-> kind, Tag |-> tag, Value |-> value, Content |-> content, Comment |-> comment]
ZeroNode == Node("zero", <<>>, <<>>, <<>>, <<>>)
\* &yaml.Node{Kind: yaml.ScalarNode, Value: val, Tag: "!!str"}
NewScalar(val) == Node("scalar", StrTag, val, <<>>, <<>>)
NewMapping == Node("mapping", <<>>, <<>>, <<>>, <<>>)
NewSequence == Node("sequence", <<>>, <<>>, <<>>, <<>>)
\* A document over one mapping with the given keys and values.
Doc0(pairs) == Node("document", <<>>, <<>>, <<Node("mapping", <<>>, <<>>, pairs, <<>>)>>, <<>>)

\* A file on disk: absent, a directory of that name, or a regular file.  The
\* content of a manifest is kept as the node tree yaml.Unmarshal reads from it
\* and the encoder writes to it; marker tells whether it starts with "---".
NoFile == [kind |-> "none"]
DirFile == [kind |-> "dir"]
File(marker, root) == [kind |-> "file", marker |-> marker, root |-> root]

ResourceStats(reordered, added, removed, updated, noop) ==
    [Reordered |-> reordered, Added |-> added, Removed |-> removed,
     Updated |-> updated, NoOp |-> noop]
ZeroStats == ResourceStats(0, 0, 0, 0, 0)
\* Mutant: the stats of a child replace those of its parent.
AddStats_Last(a, b) == b

AddStats(a, b) ==
    ResourceStats(a.Reordered + b.Reordered, a.Added + b.Added, a.Removed + b.Removed,
                  a.Updated + b.Updated, a.NoOp + b.NoOp)

\* The keys of a mapping node, as ensureHeader reads them: Content[i].Value for
\* the even (0-based) indexes.
KeyIndexes(mapNode) == {i \in 1..Len(mapNode.Content) : i % 2 = 1}

\* Mutant: the header replaces what the mapping held.
ensureHeader_Replace(mapNode) ==
    [mapNode EXCEPT !.Content =
        <<NewScalar(ApiVersionKey), NewScalar(ApiVersionValue),
          NewScalar(KindKey), NewScalar(KindValue)>>]

ensureHeader(mapNode) ==
    IF \E i \in KeyIndexes(mapNode) :
          mapNode.Content[i].Value = ApiVersionKey \/ mapNode.Content[i].Value = KindKey
    THEN mapNode
    ELSE [mapNode EXCEPT !.Content =
            <<NewScalar(ApiVersionKey), NewScalar(ApiVersionValue),
              NewScalar(KindKey), NewScalar(KindValue)>> \o @]

\* The loop of collectExistingResources over the nodes of the list: the order
\* of first occurrence of the scalar values.
RECURSIVE collectOrder(_, _)
collectOrder(content, order) ==
    IF content = <<>> THEN order
    ELSE IF Head(content).Kind # "scalar" THEN collectOrder(Tail(content), order)
    ELSE IF Head(content).Value \in Range(order) THEN collectOrder(Tail(content), order)
    ELSE collectOrder(Tail(content), Append(order, Head(content).Value))

\* nodes[value] after the loop: every scalar node is assigned in turn
\* (nodes[node.Value] = node), so the node of the last occurrence stays.
collectNodes(scalars) ==
    [v \in {scalars[i].Value : i \in 1..Len(scalars)} |->
        scalars[CHOOSE i \in 1..Len(scalars) :
                   /\ scalars[i].Value = v
                   /\ \A j \in (i + 1)..Len(scalars) : scalars[j].Value # v]]

collectExistingResources(seq) ==
    [nodes |-> collectNodes(SelectSeq(seq.Content, LAMBDA n : n.Kind = "scalar")),
     order |-> collectOrder(seq.Content, <<>>)]

\* The keys of mapNode named resources that have a value.
ResourceKeys(mapNode) ==
    {i \in KeyIndexes(mapNode) :
        i + 1 <= Len(mapNode.Content) /\ mapNode.Content[i].Value = ResourcesKey}

\* The index in mapNode.Content of the value of the first resources key, or 0.
FindResources(keys) ==
    IF keys = {} THEN 0 ELSE (CHOOSE i \in keys : \A j \in keys : i <= j) + 1

\* The rest of ensureResourcesSeq once the sequence is at index at of the
\* mapping: its kind is forced and its entries collected.
resourcesAt(root, at, got) ==
    [root |-> [root EXCEPT !.Content[1].Content[at].Kind = "sequence"],
     at |-> at, order |-> got.order, nodes |-> got.nodes]

\* mapNode.Content = append(mapNode.Content, keyNode, seq)
appendResources(mapNode) ==
    [mapNode EXCEPT !.Content = @ \o <<NewScalar(ResourcesKey), NewSequence>>]

\* ensureResourcesSeq once the first resources key was looked for (found is 0
\* when there is none).
ensureFound(root, found) ==
    IF found = 0
    THEN resourcesAt([root EXCEPT !.Content[1] = appendResources(@)],
                     Len(root.Content[1].Content) + 2,
                     collectExistingResources(NewSequence))
    ELSE resourcesAt(root, found, collectExistingResources(root.Content[1].Content[found]))

\* ensureResourcesSeq: root with the resources sequence in place, at is its
\* index in the mapping (the pointer seq), and what the list holds.
ensureResourcesSeq(root) == ensureFound(root, FindResources(ResourceKeys(root.Content[1])))

\* if len(root.Content) == 0 { root.Content = []*yaml.Node{{Kind: yaml.MappingNode}} }
withMapping(doc) ==
    IF Len(doc.Content) = 0 THEN [doc EXCEPT !.Content = <<NewMapping>>] ELSE doc

\* loadKustomization: the document read from file (or an empty one), made a
\* document over a mapping with the header and the resources sequence.
loadKustomization(file, exists) ==
    ensureResourcesSeq(
        [withMapping([(IF exists THEN file.root ELSE ZeroNode) EXCEPT !.Kind = "document"])
            EXCEPT !.Content[1] = ensureHeader([@ EXCEPT !.Kind = "mapping"])])

\* The scalar values of a list of nodes, in order.
ScalarValues(content) ==
    [i \in 1..Len(SelectSeq(content, LAMBDA n : n.Kind = "scalar")) |->
        SelectSeq(content, LAMBDA n : n.Kind = "scalar")[i].Value]

\* The value of the first resources key of the document in file: all its
\* entries, and the scalar ones.  <<>> when file is no file or has no such key.
ManagedNodes(file) ==
    IF file.kind # "file" THEN <<>>
    ELSE IF Len(file.root.Content) = 0 THEN <<>>
    ELSE IF ResourceKeys(file.root.Content[1]) = {} THEN <<>>
    ELSE file.root.Content[1].Content[FindResources(ResourceKeys(file.root.Content[1]))].Content
ManagedList(file) == ScalarValues(ManagedNodes(file))

\* Mutant: the list is compared as a set of entries, its order ignored.
SlicesEqual_AsSets(a, b) == Range(a) = Range(b)

\* slices.Equal(final, order)
SlicesEqual(a, b) == a = b

\* Lines 241-283: the nodes of final (the node of an existing value is reused)
\* become the content of the sequence and the document is written after "---".
rewrite(loaded, final) ==
    File(TRUE,
         [loaded.root EXCEPT !.Content[1].Content[loaded.at].Content =
            [i \in 1..Len(final) |->
                IF final[i] \in DOMAIN loaded.nodes
                THEN loaded.nodes[final[i]]
                ELSE NewScalar(final[i])]])

\* updateKustomization from the merge on.
updateMerged(file, loaded, final) ==
    IF SlicesEqual(final, loaded.order)
    THEN [updated |-> FALSE, order |-> loaded.order, final |-> final,
          stats |-> ZeroStats, file |-> file]
    ELSE [updated |-> TRUE, order |-> loaded.order, final |-> final,
          stats |-> ResourceStats(IF orderChanged(loaded.order, final) THEN 1 ELSE 0,
                                  Len(diffEntries(loaded.order, final).added),
                                  RemovedLen(diffEntries(loaded.order, final)), 0, 0),
          file |-> rewrite(loaded, final)]

updateLoaded(o, file, loaded, dirEntries, fileEntries) ==
    updateMerged(file, loaded, mergeResources(o, loaded.order, dirEntries, fileEntries))

\* updateKustomization on the content of the file at path: whether it was
\* rewritten, order, final, the stats, and the content of the file afterwards.
updateKustomization(o, file, exists, dirEntries, fileEntries) ==
    updateLoaded(o, file, loadKustomization(file, exists), dirEntries, fileEntries)

-----------------------------------------------------------------------------
(* Paths and patterns *)

\* A path below the base directory is the sequence of its segment names; the
\* base itself is <<>>.  JoinSlash is the slash-separated string
\* filepath.ToSlash(filepath.Rel(...)) gives for it.
RECURSIVE JoinSlash(_)
JoinSlash(path) ==
    IF path = <<>> THEN <<>>
    ELSE IF Len(path) = 1 THEN path[1]
    ELSE path[1] \o <<"/">> \o JoinSlash(Tail(path))

\* path.Base of a non-empty slash-separated path without trailing slash.
RECURSIVE pathBase(_)
pathBase(rel) ==
    IF Contains(rel, "/") THEN pathBase(Tail(rel)) ELSE rel

\* path.Match (filepath.Match on a slash-separated system is the same
\* function) of the Go library, as the program calls it.  The result is
\* [matched, err]; err is "nil" or "ErrBadPattern".

\* getEsc: the next character of a class, after an optional backslash.  A
\* class may not end here, and a bare - or ] is no character.
getEsc(chunk) ==
    IF chunk = <<>> \/ chunk[1] = "-" \/ chunk[1] = "]"
    THEN [r |-> 0, chunk |-> <<>>, err |-> "ErrBadPattern"]
    ELSE IF chunk[1] = "\\" /\ Len(chunk) = 1
         THEN [r |-> 0, chunk |-> <<>>, err |-> "ErrBadPattern"]
    ELSE IF chunk[1] = "\\"
         THEN [r |-> Code[chunk[2]], chunk |-> SubSeq(chunk, 3, Len(chunk)),
               err |-> IF Len(chunk) = 2 THEN "ErrBadPattern" ELSE "nil"]
    ELSE [r |-> Code[chunk[1]], chunk |-> Tail(chunk),
          err |-> IF Len(chunk) = 1 THEN "ErrBadPattern" ELSE "nil"]

\* matchChunk, the loop "parse all ranges" of a character class: r is the
\* character of the name (0 once the match has failed), nrange the number of
\* ranges read.  The result is what is left of the chunk after the closing ]
\* and whether a range holds r.
RECURSIVE classRanges(_, _, _, _)
classRanges(chunk, r, match, nrange) ==
    IF chunk # <<>> /\ chunk[1] = "]" /\ nrange > 0
    THEN [chunk |-> Tail(chunk), match |-> match, err |-> "nil"]
    ELSE IF getEsc(chunk).err # "nil"
         THEN [chunk |-> <<>>, match |-> FALSE, err |-> "ErrBadPattern"]
    ELSE IF getEsc(chunk).chunk[1] # "-"
         THEN classRanges(getEsc(chunk).chunk, r, match \/ getEsc(chunk).r = r, nrange + 1)
    ELSE IF getEsc(Tail(getEsc(chunk).chunk)).err # "nil"
         THEN [chunk |-> <<>>, match |-> FALSE, err |-> "ErrBadPattern"]
    ELSE classRanges(getEsc(Tail(getEsc(chunk).chunk)).chunk, r,
                     match \/ (getEsc(chunk).r <= r /\ r <= getEsc(Tail(getEsc(chunk).chunk)).r),
                     nrange + 1)

\* matchChunk(chunk, s) is matchChunk(chunk, s, FALSE): failed records that the
\* match has failed; the rest of the chunk is then only checked to be well
\* formed and s is read no more.
RECURSIVE matchChunk(_, _, _)
matchChunk(chunk, s, failed) ==
    IF chunk = <<>>
    THEN IF failed THEN [rest |-> <<>>, ok |-> FALSE, err |-> "nil"]
         ELSE [rest |-> s, ok |-> TRUE, err |-> "nil"]
    ELSE IF chunk[1] = "["
         THEN LET ranges == classRanges(IF Len(chunk) > 1 /\ chunk[2] = "^"
                                        THEN SubSeq(chunk, 3, Len(chunk)) ELSE Tail(chunk),
                                        IF failed \/ s = <<>> THEN 0 ELSE Code[s[1]], FALSE, 0)
              IN  IF ranges.err # "nil"
                  THEN [rest |-> <<>>, ok |-> FALSE, err |-> "ErrBadPattern"]
                  ELSE matchChunk(ranges.chunk,
                                  IF failed \/ s = <<>> THEN s ELSE Tail(s),
                                  failed \/ s = <<>>
                                      \/ ranges.match = (Len(chunk) > 1 /\ chunk[2] = "^"))
    ELSE IF chunk[1] = "?"
         THEN matchChunk(Tail(chunk),
                         IF failed \/ s = <<>> THEN s ELSE Tail(s),
                         failed \/ s = <<>> \/ s[1] = "/")
    ELSE IF chunk[1] = "\\" /\ Len(chunk) = 1
         THEN [rest |-> <<>>, ok |-> FALSE, err |-> "ErrBadPattern"]
    ELSE IF chunk[1] = "\\"
         THEN matchChunk(SubSeq(chunk, 3, Len(chunk)),
                         IF failed \/ s = <<>> THEN s ELSE Tail(s),
                         failed \/ s = <<>> \/ chunk[2] # s[1])
    ELSE matchChunk(Tail(chunk),
                    IF failed \/ s = <<>> THEN s ELSE Tail(s),
                    failed \/ s = <<>> \/ chunk[1] # s[1])

\* scanChunk, the loop Scan: the length of the chunk that starts pattern p, up
\* to the first * outside [ ]; i is the position looked at.
RECURSIVE scanEnd(_, _, _)
scanEnd(p, i, inrange) ==
    IF i > Len(p) THEN Len(p)
    ELSE IF p[i] = "\\" THEN scanEnd(p, IF i + 1 <= Len(p) THEN i + 2 ELSE i + 1, inrange)
    ELSE IF p[i] = "[" THEN scanEnd(p, i + 1, TRUE)
    ELSE IF p[i] = "]" THEN scanEnd(p, i + 1, FALSE)
    ELSE IF p[i] = "*" /\ ~inrange THEN i - 1
    ELSE scanEnd(p, i + 1, inrange)

\* scanChunk: the leading stars are dropped, then the chunk is cut off.
scanChunk(pattern) ==
    LET stars == CHOOSE k \in 0..Len(pattern) :
                     /\ \A j \in 1..k : pattern[j] = "*"
                     /\ (k = Len(pattern) \/ pattern[k + 1] # "*")
        p == SubSeq(pattern, stars + 1, Len(pattern))
    IN  [star |-> stars > 0,
         chunk |-> SubSeq(p, 1, scanEnd(p, 1, FALSE)),
         rest |-> SubSeq(p, scanEnd(p, 1, FALSE) + 1, Len(p))]

\* Match, before it returns false: the rest of the pattern is checked to be
\* well formed.
RECURSIVE restErr(_)
restErr(pattern) ==
    IF pattern = <<>> THEN "nil"
    ELSE IF matchChunk(scanChunk(pattern).chunk, <<>>, FALSE).err # "nil" THEN "ErrBadPattern"
    ELSE restErr(scanChunk(pattern).rest)

RECURSIVE Match(_, _)
RECURSIVE starSkip(_, _, _, _)
\* Match, after a star: the chunk is tried after skipping i characters of the
\* name, none of them a slash.
starSkip(chunk, rest, name, i) ==
    IF i > Len(name) \/ name[i] = "/"
    THEN [matched |-> FALSE, err |-> restErr(rest)]
    ELSE LET m == matchChunk(chunk, SubSeq(name, i + 1, Len(name)), FALSE)
         IN  IF m.ok /\ ~(rest = <<>> /\ m.rest # <<>>) THEN Match(rest, m.rest)
             ELSE IF m.ok THEN starSkip(chunk, rest, name, i + 1)
             ELSE IF m.err # "nil" THEN [matched |-> FALSE, err |-> m.err]
             ELSE starSkip(chunk, rest, name, i + 1)

\* path.Match(pattern, name): * matches any run of non-slash characters, ? one
\* non-slash character, [...] one character of a class, \c the character c; a
\* malformed pattern gives ErrBadPattern.
Match(pattern, name) ==
    IF pattern = <<>> THEN [matched |-> name = <<>>, err |-> "nil"]
    ELSE LET sc == scanChunk(pattern)
             m == matchChunk(sc.chunk, name, FALSE)
         IN  IF sc.star /\ sc.chunk = <<>>
             THEN [matched |-> ~Contains(name, "/"), err |-> "nil"]
             ELSE IF m.ok /\ (m.rest = <<>> \/ sc.rest # <<>>) THEN Match(sc.rest, m.rest)
             ELSE IF m.err # "nil" THEN [matched |-> FALSE, err |-> m.err]
             ELSE IF sc.star THEN starSkip(sc.chunk, sc.rest, name, 1)
             ELSE [matched |-> FALSE, err |-> restErr(sc.rest)]

-----------------------------------------------------------------------------
(* The .gitignore matcher chain *)

\* parseGitignore: the trimmed lines that are neither blank nor comments.
parseGitignore(lines) ==
    LET trimmed == [i \in 1..Len(lines) |-> TrimSpace(lines[i])]
    IN  SelectSeq(trimmed, LAMBDA line : line # <<>> /\ ~HasPrefix(line, <<"#">>))

matchesPattern(rel, pattern, isDir) ==
    IF pattern = <<>> THEN FALSE
    ELSE IF HasSuffix(pattern, <<"/">>) /\ ~isDir THEN FALSE
    ELSE LET pat == IF HasSuffix(pattern, <<"/">>) THEN TrimSuffix(pattern, <<"/">>) ELSE pattern
         IN  IF pat = <<>> THEN TRUE
             ELSE IF ContainsAny(pat, GlobChars)
                  THEN IF Match(pat, rel).err # "nil" THEN FALSE ELSE Match(pat, rel).matched
             ELSE rel = pat

\* Mutant: only the patterns of the matcher itself are tried.
Ignored_OwnOnly(m, fullPath, isDir) ==
    /\ m # <<>>
    /\ \E i \in 1..Len(m[1].patterns) :
          matchesPattern(JoinSlash(SubSeq(fullPath, Len(m[1].dir) + 1, Len(fullPath))),
                         m[1].patterns[i], isDir)

\* A matcher is the chain of its own node and its ancestors', closest first;
\* each node holds the directory it was loaded for and its patterns.  The nil
\* matcher is the empty chain.
RECURSIVE Ignored(_, _, _)
Ignored(m, fullPath, isDir) ==
    IF m = <<>> THEN FALSE
    ELSE LET rel == JoinSlash(SubSeq(fullPath, Len(m[1].dir) + 1, Len(fullPath)))
         IN  \/ \E i \in 1..Len(m[1].patterns) : matchesPattern(rel, m[1].patterns[i], isDir)
             \/ Ignored(Tail(m), fullPath, isDir)

-----------------------------------------------------------------------------
(* Skip rules *)

skipModeExact == "exact"
skipModeGlob == "glob"
skipModeSubtree == "subtree"
skipModeChildren == "children"

skipRule(raw, mode, value) == [raw |-> raw, mode |-> mode, value |-> value]

parseSkipRule(raw) ==
    LET canonical == TrimRightSlash(raw)
    IN  IF HasSuffix(canonical, <<"/", "*", "*">>)
        THEN skipRule(raw, skipModeSubtree, TrimSuffix(canonical, <<"/", "*", "*">>))
        ELSE IF HasSuffix(raw, <<"/", "*">>)
        THEN skipRule(raw, skipModeChildren, TrimSuffix(canonical, <<"/", "*">>))
        ELSE IF ContainsAny(raw, GlobChars)
        THEN skipRule(raw, skipModeGlob, raw)
        ELSE skipRule(raw, skipModeExact, TrimSuffix(raw, <<"/">>))

parseSkipRules(patterns) == [i \in 1..Len(patterns) |-> parseSkipRule(patterns[i])]

\* Mutant: everything below the prefix counts as a child.
matchesChild_AnyDepth(rel, prefix) ==
    IF prefix = <<>> THEN TRUE ELSE HasPrefix(rel, prefix \o <<"/">>)

matchesChild(rel, prefix) ==
    IF prefix = <<>> THEN ~Contains(rel, "/")
    ELSE IF ~HasPrefix(rel, prefix \o <<"/">>) THEN FALSE
    ELSE LET rest == SubSeq(rel, Len(prefix) + 2, Len(rel))
         IN  rest # <<>> /\ ~Contains(rest, "/")

\* Mutant: an exact rule is compared with the full relative path only.
ruleMatches_NoBasename(rule, rel, isDir) ==
    CASE rule.mode = skipModeSubtree -> rel = rule.value
      [] rule.mode = skipModeChildren ->
            (isDir /\ rel = rule.value) \/ matchesChild(rel, rule.value)
      [] rule.mode = skipModeExact -> rel = rule.value
      [] rule.mode = skipModeGlob ->
            \/ (Match(rule.value, rel).err = "nil" /\ Match(rule.value, rel).matched)
            \/ /\ ~Contains(rule.value, "/")
               /\ Match(rule.value, pathBase(rel)).err = "nil"
               /\ Match(rule.value, pathBase(rel)).matched

\* One case of the switch in matchSkip: does rule match rel.
ruleMatches(rule, rel, isDir) ==
    CASE rule.mode = skipModeSubtree -> rel = rule.value
      [] rule.mode = skipModeChildren ->
            (isDir /\ rel = rule.value) \/ matchesChild(rel, rule.value)
      [] rule.mode = skipModeExact ->
            \/ rel = rule.value
            \/ (~Contains(rule.value, "/") /\ pathBase(rel) = rule.value)
      [] rule.mode = skipModeGlob ->
            \/ (Match(rule.value, rel).err = "nil" /\ Match(rule.value, rel).matched)
            \/ /\ ~Contains(rule.value, "/")
               /\ Match(rule.value, pathBase(rel)).err = "nil"
               /\ Match(rule.value, pathBase(rel)).matched

\* Mutant: the last rule that matches decides.
matchSkip_LastWins(rel, isDir, rules) ==
    IF \A i \in 1..Len(rules) : ~ruleMatches(rules[i], rel, isDir)
    THEN [skip |-> FALSE, mode |-> skipModeExact, pattern |-> <<>>]
    ELSE LET i == CHOOSE k \in 1..Len(rules) :
                      /\ ruleMatches(rules[k], rel, isDir)
                      /\ \A j \in (k + 1)..Len(rules) : ~ruleMatches(rules[j], rel, isDir)
         IN  [skip |-> TRUE, mode |-> rules[i].mode, pattern |-> rules[i].raw]

RECURSIVE matchSkip(_, _, _)
matchSkip(rel, isDir, rules) ==
    IF rules = <<>> THEN [skip |-> FALSE, mode |-> skipModeExact, pattern |-> <<>>]
    ELSE IF ruleMatches(Head(rules), rel, isDir)
         THEN [skip |-> TRUE, mode |-> Head(rules).mode, pattern |-> Head(rules).raw]
         ELSE matchSkip(rel, isDir, Tail(rules))

childDir(name, skipUpdate, skipWalk) ==
    [name |-> name, skipUpdate |-> skipUpdate, skipWalk |-> skipWalk]

\* Mutant: a directory matched by a children rule is still walked.
handleSkipDir_ChildrenWalked(name, mode, dirEntries, childDirs) ==
    CASE mode = skipModeExact ->
            [dirEntries |-> dirEntries, childDirs |-> childDirs]
      [] mode = skipModeChildren ->
            [dirEntries |-> Append(dirEntries, name),
             childDirs |-> Append(childDirs, childDir(name, FALSE, FALSE))]
      [] mode = skipModeSubtree ->
            [dirEntries |-> Append(dirEntries, name),
             childDirs |-> Append(childDirs, childDir(name, TRUE, FALSE))]
      [] OTHER ->
            [dirEntries |-> dirEntries, childDirs |-> childDirs]

\* Mutant: a directory matched by a glob rule is listed and walked.
handleSkipDir_GlobListed(name, mode, dirEntries, childDirs) ==
    CASE mode = skipModeExact ->
            [dirEntries |-> dirEntries, childDirs |-> childDirs]
      [] mode = skipModeChildren ->
            [dirEntries |-> Append(dirEntries, name),
             childDirs |-> Append(childDirs, childDir(name, FALSE, TRUE))]
      [] mode = skipModeSubtree ->
            [dirEntries |-> Append(dirEntries, name),
             childDirs |-> Append(childDirs, childDir(name, TRUE, FALSE))]
      [] OTHER ->
            [dirEntries |-> Append(dirEntries, name),
             childDirs |-> Append(childDirs, childDir(name, FALSE, FALSE))]

\* handleSkipDir: the lists with the skipped directory named name added or not.
handleSkipDir(name, mode, dirEntries, childDirs) ==
    CASE mode = skipModeExact ->
            [dirEntries |-> dirEntries, childDirs |-> childDirs]
      [] mode = skipModeChildren ->
            [dirEntries |-> Append(dirEntries, name),
             childDirs |-> Append(childDirs, childDir(name, FALSE, TRUE))]
      [] mode = skipModeSubtree ->
            [dirEntries |-> Append(dirEntries, name),
             childDirs |-> Append(childDirs, childDir(name, TRUE, FALSE))]
      [] OTHER ->
            [dirEntries |-> dirEntries, childDirs |-> childDirs]

\* Mutant: no file name is reserved for the manifest.
isKustomization_Never(name) == FALSE

isKustomization(name) == name = KustomizationYaml \/ name = KustomizationYml

\* Mutant: the extension is compared as written.
isYAML_CaseSensitive(name) == HasSuffix(name, YamlExt) \/ HasSuffix(name, YmlExt)

isYAML(name) ==
    LET lowered == ToLower(name)
    IN  HasSuffix(lowered, YamlExt) \/ HasSuffix(lowered, YmlExt)

-----------------------------------------------------------------------------
(* The directory walk *)

ManifestNames == {KustomizationYaml, KustomizationYml}

IsChildOf(p, dir) == Len(p) = Len(dir) + 1 /\ SubSeq(p, 1, Len(dir)) = dir
Last(p) == p[Len(p)]

RECURSIVE SortedSeqOf(_)
SortedSeqOf(S) ==
    IF S = {} THEN <<>>
    ELSE LET first == CHOOSE x \in S : \A y \in S \ {x} : StrLess(x, y)
         IN  <<first>> \o SortedSeqOf(S \ {first})

ChildNames(paths, dir) == {Last(p) : p \in {q \in paths : IsChildOf(q, dir)}}
ManifestsOfKind(d, dir, kind) == {n \in ManifestNames : d[dir][n].kind = kind}
DirNamesIn(f, d, dir) == ChildNames(f.dirs, dir) \cup ManifestsOfKind(d, dir, "dir")
FileNamesIn(f, d, dir) ==
    ChildNames(f.files, dir) \cup ManifestsOfKind(d, dir, "file")
        \cup (IF dir \in DOMAIN f.gitignore THEN {GitignoreName} ELSE {})

entriesOf(sorted, dirNames) ==
    [i \in 1..Len(sorted) |-> [name |-> sorted[i], isDir |-> sorted[i] \in dirNames]]

\* os.ReadDir(dir): the entries of dir sorted by file name.
ReadDir(f, d, dir) ==
    entriesOf(SortedSeqOf(DirNamesIn(f, d, dir) \cup FileNamesIn(f, d, dir)),
              DirNamesIn(f, d, dir))

SkippedEvent(rel, entry, reason, pattern) ==
    [ev |-> "skipped", path |-> rel, entry |-> entry, reason |-> reason, pattern |-> pattern]

\* newMatcher(dir, parent): the patterns of dir's .gitignore, none when it has no such file.
newMatcher(f, dir, parent) ==
    <<[dir |-> dir,
       patterns |-> IF dir \in DOMAIN f.gitignore THEN parseGitignore(f.gitignore[dir]) ELSE <<>>]>>
    \o parent

\* loadMatcher: nil when .gitignore handling is off, else parent.Child(dir) or
\* gitignore.Load(dir, true).
loadMatcher(o, f, dir, parent) ==
    IF ~o.UseGitIgnore THEN <<>> ELSE newMatcher(f, dir, parent)

\* Mutant: the skip rules are consulted before the ignore matcher.
entryDecision_SkipFirst(o, rules, matcher, fullPath, entry) ==
    IF isKustomization(entry.name) THEN "reserved"
    ELSE IF ~o.IncludeDot /\ HasPrefix(entry.name, <<".">>) THEN "dot"
    ELSE IF matchSkip(JoinSlash(fullPath), entry.isDir, rules).skip THEN "pattern"
    ELSE IF matcher # <<>> /\ Ignored(matcher, fullPath, entry.isDir) THEN "gitignore"
    ELSE IF entry.isDir THEN "dir"
    ELSE IF isYAML(entry.name) THEN "file"
    ELSE "none"

\* The branch the body of the loop of scanEntries takes for one entry.
entryDecision(o, rules, matcher, fullPath, entry) ==
    IF isKustomization(entry.name) THEN "reserved"
    ELSE IF ~o.IncludeDot /\ HasPrefix(entry.name, <<".">>) THEN "dot"
    ELSE IF matcher # <<>> /\ Ignored(matcher, fullPath, entry.isDir) THEN "gitignore"
    ELSE IF matchSkip(JoinSlash(fullPath), entry.isDir, rules).skip THEN "pattern"
    ELSE IF entry.isDir THEN "dir"
    ELSE IF isYAML(entry.name) THEN "file"
    ELSE "none"

\* handleSkipDir applied to the lists of acc.
skipDir(acc, h) == [acc EXCEPT !.dirEntries = h.dirEntries, !.childDirs = h.childDirs]

\* What the branch does to the lists and the log; m is the result of matchSkip.
scanEntry(acc, decision, entry, fullPath, m) ==
    CASE decision = "gitignore" ->
            [acc EXCEPT !.events =
                Append(@, SkippedEvent(JoinSlash(fullPath), fullPath, "gitignore", <<>>))]
      [] decision = "pattern" /\ ~entry.isDir ->
            [acc EXCEPT !.events =
                Append(@, SkippedEvent(JoinSlash(fullPath), fullPath, "pattern", m.pattern))]
      [] decision = "pattern" /\ entry.isDir ->
            [skipDir(acc, handleSkipDir(entry.name, m.mode, acc.dirEntries, acc.childDirs))
                EXCEPT !.events =
                    Append(@, SkippedEvent(JoinSlash(fullPath), fullPath, "pattern", m.pattern))]
      [] decision = "dir" ->
            [acc EXCEPT !.dirEntries = Append(@, entry.name),
                        !.childDirs = Append(@, childDir(entry.name, FALSE, FALSE))]
      [] decision = "file" ->
            [acc EXCEPT !.fileEntries = Append(@, entry.name)]
      [] OTHER -> acc

\* The loop of scanEntries over the entries of dir.
RECURSIVE scanLoop(_, _, _, _, _, _)
scanLoop(o, rules, dir, matcher, entries, acc) ==
    IF entries = <<>> THEN acc
    ELSE scanLoop(o, rules, dir, matcher, Tail(entries),
                  scanEntry(acc,
                            entryDecision(o, rules, matcher, Append(dir, Head(entries).name),
                                          Head(entries)),
                            Head(entries),
                            Append(dir, Head(entries).name),
                            matchSkip(JoinSlash(Append(dir, Head(entries).name)),
                                      Head(entries).isDir, rules)))

\* scanEntries(dir, base, matcher): dirEntries, fileEntries, childDirs and the
\* skip events logged on the way.
scanEntries(o, f, d, dir, matcher) ==
    scanLoop(o, parseSkipRules(o.Skip), dir, matcher, ReadDir(f, d, dir),
             [dirEntries |-> <<>>, fileEntries |-> <<>>, childDirs |-> <<>>, events |-> <<>>])

\* Mutant: only kustomization.yaml is looked for.
pickKustomizationPath_YamlOnly(d, dir) ==
    [name |-> KustomizationYaml, exists |-> d[dir][KustomizationYaml].kind = "file",
     probed |-> <<KustomizationYaml>>]

\* pickKustomizationPath(dir): the first candidate that is a regular file, or
\* kustomization.yaml to be created; probed lists the candidates it stat'ed.
pickKustomizationPath(d, dir) ==
    IF d[dir][KustomizationYaml].kind = "file"
    THEN [name |-> KustomizationYaml, exists |-> TRUE, probed |-> <<KustomizationYaml>>]
    ELSE IF d[dir][KustomizationYml].kind = "file"
    THEN [name |-> KustomizationYml, exists |-> TRUE,
          probed |-> <<KustomizationYaml, KustomizationYml>>]
    ELSE [name |-> KustomizationYaml, exists |-> FALSE,
          probed |-> <<KustomizationYaml, KustomizationYml>>]

IoOp(op, dir, name) == [op |-> op, dir |-> dir, name |-> name]

\* The tags logUpdate joins into the change field.
changeParts(stats) ==
    (IF stats.Reordered > 0 THEN <<"order">> ELSE <<>>)
    \o (IF stats.Added > 0 THEN <<"added">> ELSE <<>>)
    \o (IF stats.Removed > 0 THEN <<"removed">> ELSE <<>>)

\* applyKustomization after updateKustomization returned u.
applyUpdated(dir, name, exists, u) ==
    IF u.updated
    THEN [stats |-> [u.stats EXCEPT !.Updated = 1],
          file |-> u.file,
          events |-> <<[ev |-> "updated", dir |-> dir, name |-> name,
                        change |-> changeParts(u.stats)],
                       [ev |-> "diff", dir |-> dir, old |-> u.order, new |-> u.final]>>,
          io |-> (IF exists THEN <<IoOp("readfile", dir, name)>> ELSE <<>>)
                 \o <<IoOp("create", dir, name)>>,
          order |-> u.order, final |-> u.final]
    ELSE [stats |-> [u.stats EXCEPT !.NoOp = 1],
          file |-> u.file,
          events |-> <<[ev |-> "noop", dir |-> dir, name |-> name]>>,
          io |-> IF exists THEN <<IoOp("readfile", dir, name)>> ELSE <<>>,
          order |-> u.order, final |-> u.final]

\* Mutant: a skip-update directory is reconciled like any other.
applyKustomization_IgnoreSkipUpdate(o, d, dir, name, exists, dirEntries, fileEntries, skipUpdate) ==
    applyUpdated(dir, name, exists,
                 updateKustomization(o, d[dir][name], exists, dirEntries, fileEntries))

\* applyKustomization: the stats, the content of the manifest afterwards, the
\* logger calls and the file operations.
applyKustomization(o, d, dir, name, exists, dirEntries, fileEntries, skipUpdate) ==
    IF skipUpdate
    THEN [stats |-> ZeroStats,
          file |-> d[dir][name],
          events |-> <<[ev |-> "trace", dir |-> dir, name |-> name]>>,
          io |-> <<>>,
          order |-> <<>>, final |-> <<>>]
    ELSE applyUpdated(dir, name, exists,
                      updateKustomization(o, d[dir][name], exists, dirEntries, fileEntries))

\* The step of walkDir(dir) that returns an error, or "none".  The steps
\* are taken in the order of the code: the .gitignore is opened (when
\* .gitignore handling is on), the directory read, the candidates stat'ed; a
\* manifest that exists is read and parsed unless the update is skipped; a
\* list that differs is encoded, the file created (which fails on a name held
\* by a directory), the prefix and then the content written.
failingOp(dir, skipUpdate, pick, applied) ==
    IF fault.dir = dir /\ fault.op = "open" /\ opts.UseGitIgnore THEN "open"
    ELSE IF fault.dir = dir /\ fault.op = "readdir" THEN "readdir"
    ELSE IF fault.dir = dir /\ fault.op = "stat" /\ fault.name \in Range(pick.probed) THEN "stat"
    ELSE IF skipUpdate THEN "none"
    ELSE IF fault.dir = dir /\ fault.op \in {"readfile", "parse"} /\ pick.exists THEN fault.op
    ELSE IF applied.stats.Updated = 0 THEN "none"
    ELSE IF fault.dir = dir /\ fault.op = "encode" THEN "encode"
    ELSE IF disk[dir][pick.name].kind = "dir" \/ (fault.dir = dir /\ fault.op = "create")
         THEN "create"
    ELSE IF fault.dir = dir /\ fault.op \in {"writeprefix", "writecontent"} THEN fault.op
    ELSE "none"

\* The file operations of walkDir(dir) that succeeded before step op failed.
opsBefore(dir, op, pick) ==
    (IF opts.UseGitIgnore /\ op # "open" THEN <<IoOp("open", dir, GitignoreName)>> ELSE <<>>)
    \o (IF op \notin {"open", "readdir"} THEN <<IoOp("readdir", dir, <<>>)>> ELSE <<>>)
    \o (IF op = "stat"
        THEN (IF fault.name = KustomizationYml
              THEN <<IoOp("stat", dir, KustomizationYaml)>> ELSE <<>>)
        ELSE IF op \in {"open", "readdir"} THEN <<>>
        ELSE [i \in 1..Len(pick.probed) |-> IoOp("stat", dir, pick.probed[i])])
    \o (IF pick.exists /\ op \in {"parse", "encode", "create", "writeprefix", "writecontent"}
        THEN <<IoOp("readfile", dir, pick.name)>> ELSE <<>>)
    \o (IF op \in {"writeprefix", "writecontent"}
        THEN <<IoOp("create", dir, pick.name)>> ELSE <<>>)

\* What a file may hold when step op of the rewrite failed: os.Create has
\* truncated it; a failed write may have put out nothing or a part of what
\* it was given (here the document up to its first field).
tornFiles(op, before, intended) ==
    CASE op = "writeprefix" -> {File(FALSE, ZeroNode)}
      [] op = "writecontent" ->
            {File(TRUE, ZeroNode),
             File(TRUE, [intended.root EXCEPT !.Content[1].Content = SubSeq(@, 1, 2)])}
      [] OTHER -> {before}

\* walkDir returns the error: every caller returns it in turn, Process returns
\* it and Run returns it without logging a summary.
walkFailed(dir, op, scan, pick, applied, evs, ops) ==
    /\ \E torn \in tornFiles(op, disk[dir][pick.name], applied.file) :
          disk' = [disk EXCEPT ![dir][pick.name] = torn]
    /\ events' = evs \o (IF op \in {"open", "readdir"} THEN <<>> ELSE scan.events)
    /\ io' = ops \o opsBefore(dir, op, pick)
    /\ stack' = <<>>
    /\ run' = [run EXCEPT !.pc = "failed",
                          !.failed = [op |-> op, dir |-> dir, manifest |-> pick.name,
                                      before |-> disk[dir][pick.name],
                                      intended |-> applied.file]]

\* walkDir, lines 79-88: the manifest was reconciled; the frame of this call is
\* pushed with its stats and the children still to walk.
walkSucceeded(dir, matcher, skipUpdate, scan, pick, applied, evs, ops, frames) ==
    /\ disk' = [disk EXCEPT ![dir][pick.name] = applied.file]
    /\ events' = evs \o scan.events \o applied.events
    /\ io' = ops
             \o (IF opts.UseGitIgnore THEN <<IoOp("open", dir, GitignoreName)>> ELSE <<>>)
             \o <<IoOp("readdir", dir, <<>>)>>
             \o [i \in 1..Len(pick.probed) |-> IoOp("stat", dir, pick.probed[i])]
             \o applied.io
    /\ stack' = <<[dir |-> dir, matcher |-> matcher, skipUpdate |-> skipUpdate,
                   before |-> disk[dir][pick.name],
                   dirEntries |-> scan.dirEntries, fileEntries |-> scan.fileEntries,
                   order |-> applied.order, final |-> applied.final,
                   manifest |-> pick.name, updated |-> applied.stats.Updated = 1,
                   subdirs |-> scan.childDirs, stats |-> applied.stats]>> \o frames
    /\ run' = run

\* Mutant: the error of a step is dropped and the walk goes on.
walkOutcome_IgnoreError(dir, matcher, skipUpdate, scan, pick, applied, evs, ops, frames, op) ==
    walkSucceeded(dir, matcher, skipUpdate, scan, pick, applied, evs, ops, frames)

\* if err != nil { return ResourceStats{}, err } after each step of walkDir.
walkOutcome(dir, matcher, skipUpdate, scan, pick, applied, evs, ops, frames, op) ==
    IF op = "none"
    THEN walkSucceeded(dir, matcher, skipUpdate, scan, pick, applied, evs, ops, frames)
    ELSE walkFailed(dir, op, scan, pick, applied, evs, ops)

\* walkDir, lines 61-88, with the values each step returns when it succeeds.
walkApplied(dir, matcher, skipUpdate, scan, pick, applied, evs, ops, frames) ==
    walkOutcome(dir, matcher, skipUpdate, scan, pick, applied, evs, ops, frames,
                failingOp(dir, skipUpdate, pick, applied))

\* walkDir, lines 73-80: the manifest is picked and reconciled.
walkScanned(dir, matcher, skipUpdate, scan, pick, evs, ops, frames) ==
    walkApplied(dir, matcher, skipUpdate, scan, pick,
                applyKustomization(opts, disk, dir, pick.name, pick.exists,
                                   scan.dirEntries, scan.fileEntries, skipUpdate),
                evs, ops, frames)

\* walkDir, lines 67-71: the entries are scanned.
walkLoaded(dir, matcher, skipUpdate, evs, ops, frames) ==
    walkScanned(dir, matcher, skipUpdate,
                scanEntries(opts, fs, disk, dir, matcher),
                pickKustomizationPath(disk, dir), evs, ops, frames)

\* The body of walkDir up to the loop over the children (lines 61-88): the
\* matcher is loaded, the entries scanned, the manifest picked and reconciled.
\* evs and ops are the logger calls and file operations so far, frames the
\* callers.
EnterDir(dir, parent, skipUpdate, evs, ops, frames) ==
    walkLoaded(dir, loadMatcher(opts, fs, dir, parent), skipUpdate, evs, ops, frames)

-----------------------------------------------------------------------------
(* Values shared by the specifications *)

NoOptions == [Skip |-> <<>>, UseGitIgnore |-> FALSE, IncludeDot |-> FALSE,
              DirSlash |-> FALSE, ResourceOrder |-> <<>>]
NoCall == [fn |-> "none"]
NoRet == [n |-> 0]

\* The walker is not running: the harness specifications leave it so.
NoTree == [dirs |-> {}, files |-> {}, gitignore |-> <<>>]

\* No operation is refused.
NoFault == [op |-> "none", dir |-> <<>>, name |-> <<>>]
NoFailure == [op |-> "none"]
\* Run before its loop over cfg.BaseDirs, and not called at all.
RunStart == [pc |-> "loop", total |-> ZeroStats, summary |-> <<>>, failed |-> NoFailure]
RunIdle == [RunStart EXCEPT !.pc = "idle"]
Background == [cancelled |-> FALSE]

WalkIdle ==
    /\ fs = NoTree
    /\ disk = <<>>
    /\ stack = <<>>
    /\ events = <<>>
    /\ io = <<>>
    /\ results = <<>>
    /\ ctx = Background
    /\ fault = NoFault
    /\ run = RunIdle

\* All sequences over S of length at most n.
RECURSIVE SeqsUpTo(_, _)
SeqsUpTo(S, n) ==
    IF n = 0 THEN {<<>>}
    ELSE LET shorter == SeqsUpTo(S, n - 1)
         IN  shorter \cup {Append(s, x) : s \in shorter, x \in S}

NoDup(s) == \A i, j \in 1..Len(s) : s[i] = s[j] => i = j

\* The sequences that list each element of some subset of S once, in any order.
Arrangements(S) == {s \in SeqsUpTo(S, Cardinality(S)) : NoDup(s)}

-----------------------------------------------------------------------------
(* Specification SpecMerge: mergeResources as a function of its arguments *)

MaxExisting == 2

RemoteR == <<"h", "t", "t", "p", ":", "/", "/", "r">>
RemoteQ == <<"h", "t", "t", "p", "s", ":", "/", "/", "q">>
\* What a hand-written resources list may hold: remote references, entries in
\* the form the tool writes them, entries of nothing on disk.
MergeExisting == {RemoteR, RemoteQ, <<"a", "/">>, <<"a">>, <<"f", ".", "y", "m", "l">>, <<"o", "l", "d">>}
\* Directory entry names, as os.ReadDir returns them: no separator in a name.
MergeDirNames == {<<"a">>, <<"b">>}
MergeFileNames == {<<"f", ".", "y", "m", "l">>, <<"c", ".", "y", "a", "m", "l">>}
MergeOrders == {<<>>,
                <<resourceGroupFiles>>,
                <<resourceGroupDirs, resourceGroupRemote>>,
                <<<<" ", "F", "i", "l", "e", "s">>, <<"x">>, resourceGroupFiles, resourceGroupDirs>>}

InitMerge ==
    /\ WalkIdle
    /\ opts \in {[NoOptions EXCEPT !.DirSlash = s, !.ResourceOrder = r] :
                    s \in BOOLEAN, r \in MergeOrders}
    /\ call \in {[fn |-> "mergeResources", existing |-> e, dirEntries |-> d, fileEntries |-> f] :
                    e \in SeqsUpTo(MergeExisting, MaxExisting),
                    d \in Arrangements(MergeDirNames),
                    f \in Arrangements(MergeFileNames)}
    /\ ret = NoRet

\* final = p.mergeResources(existing, dirEntries, fileEntries)
CallMerge ==
    /\ call.fn = "mergeResources"
    /\ ret.n = 0
    /\ ret' = [n |-> 1,
               final |-> mergeResources(opts, call.existing, call.dirEntries, call.fileEntries)]
    /\ UNCHANGED <<walkVars, call>>

\* The next run reads the list back and merges it with the same discovery.
CallRemerge ==
    /\ call.fn = "mergeResources"
    /\ ret.n = 1
    /\ ret' = [n |-> 2,
               final |-> ret.final,
               again |-> mergeResources(opts, ret.final, call.dirEntries, call.fileEntries)]
    /\ UNCHANGED <<walkVars, call>>

NextMerge == CallMerge \/ CallRemerge

SpecMerge == InitMerge /\ [][NextMerge]_vars

\* remote(E) and decorate(D) as the claim states them.
ClaimRemote(E) == {e \in Range(E) : HasPrefix(e, HttpPrefix) \/ HasPrefix(e, HttpsPrefix)}
ClaimDecorated(D) == {IF opts.DirSlash THEN d \o <<"/">> ELSE d : d \in Range(D)}
ClaimExpected == ClaimRemote(call.existing) \cup ClaimDecorated(call.dirEntries)
                    \cup Range(call.fileEntries)

\* C1: the merged list has no duplicates and its entries are exactly the remote
\* entries of the existing list, the decorated discovered directories and the
\* discovered files; a non-remote existing entry that was not discovered is gone.
C1_MergeExactUnion ==
    ret.n >= 1 =>
        /\ NoDup(ret.final)
        /\ Range(ret.final) = ClaimExpected
        /\ \A e \in Range(call.existing) :
              (e \notin ClaimRemote(call.existing)
                 /\ e \notin ClaimDecorated(call.dirEntries)
                 /\ e \notin Range(call.fileEntries)) => e \notin Range(ret.final)

\* A merge of a list with a repeated remote entry, a stale entry, a directory
\* and a file.
C1_Witness ==
    /\ ret.n >= 1
    /\ call.existing = <<RemoteR, RemoteR>>
    /\ Len(call.dirEntries) = 2
    /\ Len(call.fileEntries) = 1
    /\ opts.DirSlash
    /\ Len(ret.final) = 4

C1_WitnessStale ==
    /\ ret.n >= 1
    /\ <<"o", "l", "d">> \in Range(call.existing)
    /\ <<"o", "l", "d">> \notin Range(ret.final)

\* C2: merging the merged list again with the same discovered directories and
\* files returns the same list, entry for entry.
C2_MergeIdempotent == ret.n = 2 => ret.again = ret.final

\* A second merge of a list that holds remote entries, directories and files.
C2_Witness ==
    /\ ret.n = 2
    /\ {RemoteR, RemoteQ} \subseteq Range(ret.final)
    /\ call.existing[1] = RemoteQ
    /\ Len(call.dirEntries) = 2
    /\ Len(call.fileEntries) = 2
    /\ opts.DirSlash
    /\ ret.again = ret.final

-----------------------------------------------------------------------------
(* Specification SpecOrder: orderChanged and diffEntries on the lists      *)
(* updateKustomization passes them: order comes out of                     *)
(* collectExistingResources and final out of DedupPreserve, so neither     *)
(* repeats an entry.                                                       *)

MaxOrderEntries == 4

OrderNames == <<<<"a">>, <<"b">>, <<"c">>, <<"d">>, <<"e">>, <<"f">>>>
OrderEntries == {OrderNames[i] : i \in 1..MaxOrderEntries}

InitOrder ==
    /\ WalkIdle
    /\ opts = NoOptions
    /\ call \in {[fn |-> "orderChanged", old |-> o, new |-> n] :
                    o \in Arrangements(OrderEntries), n \in Arrangements(OrderEntries)}
    /\ ret = NoRet

CallOrderChanged ==
    /\ call.fn = "orderChanged"
    /\ ret.n = 0
    /\ ret' = [n |-> 1,
               reordered |-> orderChanged(call.old, call.new),
               diff |-> diffEntries(call.old, call.new)]
    /\ UNCHANGED <<walkVars, call>>

NextOrder == CallOrderChanged

SpecOrder == InitOrder /\ [][NextOrder]_vars

\* The index in the original list of an entry both lists hold.
IndexIn(s, e) == CHOOSE i \in 1..Len(s) : s[i] = e
Shared(old, new) == Range(old) \cap Range(new)
\* Two shared entries stand in final in the opposite order of existing.
HasInversion(old, new) ==
    \E i, j \in 1..Len(new) :
        /\ i < j
        /\ new[i] \in Range(old)
        /\ new[j] \in Range(old)
        /\ IndexIn(old, new[i]) > IndexIn(old, new[j])
\* s is t with entries left out.
IsSubsequence(s, t) == s = SelectSeq(t, LAMBDA x : x \in Range(s))

\* C9: orderChanged is true exactly when the original indexes of the shared
\* entries, read in the order of final, are not non-decreasing; entries that
\* only one list holds do not matter, pure insertions and pure deletions are
\* not a reorder, a swap of two shared entries is one even beside insertions,
\* and an empty existing list is never reordered.
C9_OrderChangedIffInversion ==
    ret.n = 1 =>
        LET old == call.old
            new == call.new
            keep == Shared(old, new)
        IN  /\ ret.reordered = HasInversion(old, new)
            /\ ret.reordered = orderChanged(SelectSeqIn(old, keep), SelectSeqIn(new, keep))
            /\ (IsSubsequence(old, new) \/ IsSubsequence(new, old)) => ~ret.reordered
            /\ (\E a, b \in keep : /\ IndexIn(old, a) < IndexIn(old, b)
                                   /\ IndexIn(new, b) < IndexIn(new, a)) => ret.reordered
            /\ old = <<>> => ~ret.reordered

\* Two shared entries swapped beside an insertion and a removal: reordered.
C9_Witness ==
    /\ ret.n = 1
    /\ call.old = <<<<"a">>, <<"b">>, <<"c">>>>
    /\ call.new = <<<<"b">>, <<"d">>, <<"a">>>>
    /\ ret.reordered

\* An insertion and a removal that keep the shared entries in order: not reordered.
C9_WitnessNoReorder ==
    /\ ret.n = 1
    /\ call.old = <<<<"a">>, <<"b">>, <<"c">>>>
    /\ call.new = <<<<"a">>, <<"d">>, <<"c">>>>
    /\ ~ret.reordered

-----------------------------------------------------------------------------
(* Specification Spec: Process over a base directory, twice *)

MaxRuns == 2

S_app == <<"a", "p", "p">>
S_db == <<"d", "b">>
S_hid == <<".", "h">>
S_b_yaml == <<"b", ".", "y", "a", "m", "l">>
S_n_txt == <<"n", ".", "t", "x", "t">>
S_m_yaml == <<"m", ".", "y", "a", "m", "l">>
S_s_yml == <<"s", ".", "y", "m", "l">>
S_U_YML == <<"U", ".", "Y", "M", "L">>
S_dot_yaml == <<".", "d", ".", "y", "a", "m", "l">>
S_old_yaml == <<"o", "l", "d", ".", "y", "a", "m", "l">>
S_namespace == <<"n", "a", "m", "e", "s", "p", "a", "c", "e">>
S_prod == <<"p", "r", "o", "d">>

\* The tree under the base: app/ with m.yaml, U.YML, a dot file and db/
\* (holding s.yml), an empty db/, a dot directory, a YAML file and a file that
\* is no YAML.
TreeDirs == {<<S_app>>, <<S_app, S_db>>, <<S_db>>, <<S_hid>>}
TreeFiles == {<<S_b_yaml>>, <<S_n_txt>>, <<S_app, S_m_yaml>>, <<S_app, S_U_YML>>,
              <<S_app, S_dot_yaml>>, <<S_app, S_db, S_s_yml>>}
AllDirs == {<<>>} \cup TreeDirs

\* The directory that holds the base directory.
Above == <<<<".", ".">>>>

\* The .gitignore files of a tree: directory -> lines.
Single(k, v) == [x \in {k} |-> v]
GitignoreChoices ==
    { <<>>,
      Single(<<>>, << <<"#", " ", "c">>, <<"d", "b", "/">>, <<" ", "b", ".", "y", "a", "m", "l", " ">> >>),
      Single(<<>>, << <<"a", "p", "p", "/">> >>),
      [x \in {<<>>, <<S_app>>} |->
          IF x = <<>> THEN << <<"a", "p", "p", "/", "m", ".", "y", "a", "m", "l">> >>
          ELSE << <<"d", "?", "/">> >>],
      Single(Above, << <<"a", "p", "p", "/">>, <<"b", ".", "y", "a", "m", "l">> >>),
      Single(<<>>, << <<"b", ".", "[">>, <<"[", "c", "-", "e", "]", "b", "/">> >>) }

\* The --skip patterns of a run.
P_app == <<"a", "p", "p">>
P_app_slash == <<"a", "p", "p", "/">>
P_app_children == <<"a", "p", "p", "/", "*">>
P_app_subtree == <<"a", "p", "p", "/", "*", "*">>
P_db == <<"d", "b">>
P_db_slash == <<"d", "b", "/">>
P_app_db == <<"a", "p", "p", "/", "d", "b">>
P_app_db_subtree == <<"a", "p", "p", "/", "d", "b", "/", "*", "*">>
P_glob_yaml == <<"*", ".", "y", "a", "m", "l">>
P_glob_d == <<"d", "?">>
P_class == <<"[", "a", "-", "c", "]", "p", "p">>
P_malformed == <<"d", "[">>
P_escaped == <<"\\", "*">>
SkipChoices ==
    { <<>>, <<P_app>>, <<P_app_slash>>, <<P_app_children>>, <<P_app_subtree>>,
      <<P_db>>, <<P_db_slash>>, <<P_app_db>>, <<P_glob_yaml>>, <<P_glob_d>>,
      <<P_app_subtree, P_app_children>>, <<P_app_subtree, P_app_db_subtree>>,
      <<P_app, P_app_subtree>>, <<P_class>>, <<P_malformed, P_db>> }

OrderChoices == {<<>>, <<resourceGroupFiles>>}

\* Manifests as they may be found before the first run.
Commented(val, c) == Node("scalar", StrTag, val, <<>>, c)
ListNode(values) == Node("sequence", <<>>, <<>>, values, <<>>)
Doc(pairs) == Doc0(pairs)
HeaderPairs == <<NewScalar(ApiVersionKey), NewScalar(ApiVersionValue),
                 NewScalar(KindKey), NewScalar(KindValue)>>
NamespacePair == <<NewScalar(S_namespace), Commented(S_prod, <<"k", "e", "e", "p">>)>>
ResourcesPair(values) == <<NewScalar(ResourcesKey), ListNode(values)>>

BaseManifests ==
    { NoFile,
      \* what the default options write for the tree
      File(TRUE, Doc(HeaderPairs \o ResourcesPair(
          <<NewScalar(S_app \o <<"/">>), NewScalar(S_db \o <<"/">>), NewScalar(S_b_yaml)>>))),
      \* hand-written: no header, files before directories, remote entries, a field after the list
      File(FALSE, Doc(ResourcesPair(
          <<Commented(S_b_yaml, <<"c", "1">>), NewScalar(RemoteQ), NewScalar(S_app \o <<"/">>),
            NewScalar(RemoteR)>>) \o NamespacePair)),
      \* no resources field at all
      File(FALSE, Doc(NamespacePair)) }

AppManifests ==
    { NoFile,
      File(TRUE, Doc(HeaderPairs \o NamespacePair \o ResourcesPair(<<NewScalar(S_old_yaml)>>))) }

AppDbManifests ==
    { NoFile,
      File(TRUE, Doc(HeaderPairs \o ResourcesPair(<<NewScalar(S_s_yml)>>))),
      \* an entry listed twice
      File(TRUE, Doc(HeaderPairs \o ResourcesPair(
          <<Commented(S_s_yml, <<"c", "1">>), Commented(S_s_yml, <<"c", "2">>)>>))),
      \* an entry that is no scalar
      File(TRUE, Doc(HeaderPairs \o ResourcesPair(<<NewScalar(S_s_yml), NewMapping>>))),
      \* a stale entry before the current one
      File(TRUE, Doc(NamespacePair \o ResourcesPair(<<NewScalar(S_old_yaml), NewScalar(S_s_yml)>>))) }

NoManifests == [n \in ManifestNames |-> NoFile]

Manifests(b, a, c) ==
    [dir \in AllDirs |->
        CASE dir = <<>> -> [NoManifests EXCEPT ![KustomizationYaml] = b]
          [] dir = <<S_app>> -> [NoManifests EXCEPT ![KustomizationYml] = a]
          [] dir = <<S_app, S_db>> -> [NoManifests EXCEPT ![KustomizationYaml] = c]
          [] OTHER -> NoManifests]

Tree(gi) == [dirs |-> TreeDirs, files |-> TreeFiles, gitignore |-> gi]

Options(sk, g, dot, sl, ord) ==
    [Skip |-> sk, UseGitIgnore |-> g, IncludeDot |-> dot, DirSlash |-> sl, ResourceOrder |-> ord]

\* Every manifest content, under the rules that decide how app/ is treated.
InitManifests ==
    /\ opts \in {Options(sk, TRUE, FALSE, sl, ord) :
                    sk \in {<<>>, <<P_app_subtree>>, <<P_app_children>>},
                    sl \in BOOLEAN, ord \in OrderChoices}
    /\ fs = Tree(<<>>)
    /\ disk \in {Manifests(b, a, c) :
                    b \in BaseManifests, a \in AppManifests, c \in AppDbManifests}
    /\ fault = NoFault

\* Every skip rule list with every set of .gitignore files, with and without
\* dot entries, over a few manifest contents.
InitRules ==
    /\ opts \in {Options(sk, g, dot, TRUE, <<>>) :
                    sk \in SkipChoices, g \in BOOLEAN, dot \in BOOLEAN}
    /\ fs \in {Tree(gi) : gi \in GitignoreChoices}
    /\ opts.UseGitIgnore \/ fs.gitignore # <<>>
    /\ disk \in {Manifests(NoFile, NoFile, NoFile)}
                \cup {Manifests(b, a, c) :
                        b \in {x \in BaseManifests : x # NoFile /\ ~x.marker},
                        a \in AppManifests \ {NoFile},
                        c \in {x \in AppDbManifests : x # NoFile /\ x.root.Content[1].Content[1].Value = S_namespace}}
    /\ fault = NoFault

\* A manifest with one of the two header fields only.
S_v9 == <<"v", "9">>
HalfHeader == File(TRUE, Doc(<<NewScalar(ApiVersionKey), NewScalar(S_v9)>>
                             \o ResourcesPair(<<NewScalar(S_old_yaml)>>)))
StaleApp == File(TRUE, Doc(HeaderPairs \o NamespacePair \o ResourcesPair(<<NewScalar(S_old_yaml)>>)))

\* Manifests and directories that hold a manifest name:
\*   a half header in app/db/;
\*   in app/ a directory kustomization.yaml beside a file kustomization.yml, in
\*   app/db/ a directory kustomization.yml, in db/ a directory kustomization.yaml;
\*   in app/db/ a directory kustomization.yaml.
EdgeDisks ==
    { Manifests(NoFile, StaleApp, HalfHeader),
      [Manifests(NoFile, StaleApp, NoFile) EXCEPT
          ![<<S_app>>][KustomizationYaml] = DirFile,
          ![<<S_app, S_db>>][KustomizationYml] = DirFile,
          ![<<S_db>>][KustomizationYaml] = DirFile],
      [Manifests(NoFile, NoFile, NoFile) EXCEPT
          ![<<S_app, S_db>>][KustomizationYaml] = DirFile] }

\* The operations of walkDir that can return an error.
FaultOps == {"open", "readdir", "stat", "readfile", "parse", "encode", "create",
             "writeprefix", "writecontent"}
Faults ==
    {NoFault}
    \cup {[op |-> op, dir |-> d, name |-> KustomizationYaml] :
            op \in FaultOps, d \in {<<>>, <<S_app>>, <<S_app, S_db>>}}
    \cup {[op |-> "stat", dir |-> d, name |-> KustomizationYml] :
            d \in {<<>>, <<S_app>>, <<S_app, S_db>>}}

\* One operation refused somewhere in the tree, and manifest names held by
\* directories.
InitFaults ==
    /\ opts \in {Options(sk, TRUE, FALSE, TRUE, <<>>) : sk \in {<<>>, <<P_app_subtree>>}}
    /\ fs = Tree(<<>>)
    /\ disk \in EdgeDisks \cup {Manifests(NoFile, NoFile, NoFile)}
    /\ fault \in Faults

Init ==
    /\ InitManifests \/ InitRules \/ InitFaults
    /\ stack = <<>>
    /\ events = <<>>
    /\ io = <<>>
    /\ results = <<>>
    /\ ctx = Background
    /\ run = RunStart
    /\ call = NoCall
    /\ ret = NoRet

\* Run, the loop over cfg.BaseDirs (the base named MaxRuns times):
\* Process(ctx, dir) calls walkDir(ctx, dir, dir, nil, false).
Process ==
    /\ run.pc = "loop"
    /\ stack = <<>>
    /\ Len(results) < MaxRuns
    /\ EnterDir(<<>>, <<>>, FALSE, <<>>, <<>>, <<>>)
    /\ UNCHANGED <<opts, fs, results, ctx, fault, call, ret>>

\* Mutant: a child marked skipWalk is kept in the loop and only its skipUpdate
\* mark is changed.
SkipWalk_Again ==
    /\ stack # <<>>
    /\ stack[1].subdirs # <<>>
    /\ Head(stack[1].subdirs).skipWalk
    /\ stack' = [stack EXCEPT ![1].subdirs =
                    <<[Head(@) EXCEPT !.skipUpdate = ~@]>> \o Tail(@)]
    /\ UNCHANGED <<opts, fs, disk, events, io, results, ctx, fault, run, call, ret>>

\* The loop over subdirs: a child marked skipWalk is passed over.
SkipWalk ==
    /\ stack # <<>>
    /\ stack[1].subdirs # <<>>
    /\ Head(stack[1].subdirs).skipWalk
    /\ stack' = [stack EXCEPT ![1].subdirs = Tail(@)]
    /\ UNCHANGED <<opts, fs, disk, events, io, results, ctx, fault, run, call, ret>>

\* Mutant: the child listed last is walked first.
Recurse_LastFirst ==
    /\ stack # <<>>
    /\ stack[1].subdirs # <<>>
    /\ ~stack[1].subdirs[Len(stack[1].subdirs)].skipWalk
    /\ LET child == stack[1].subdirs[Len(stack[1].subdirs)]
       IN  EnterDir(Append(stack[1].dir, child.name), stack[1].matcher, child.skipUpdate,
                    events, io,
                    [stack EXCEPT ![1].subdirs = SubSeq(@, 1, Len(@) - 1)])
    /\ UNCHANGED <<opts, fs, results, ctx, fault, call, ret>>

\* The loop over subdirs: walkDir is called for the next child.
Recurse ==
    /\ stack # <<>>
    /\ stack[1].subdirs # <<>>
    /\ ~Head(stack[1].subdirs).skipWalk
    /\ LET child == Head(stack[1].subdirs)
       IN  EnterDir(Append(stack[1].dir, child.name), stack[1].matcher, child.skipUpdate,
                    events, io, [stack EXCEPT ![1].subdirs = Tail(@)])
    /\ UNCHANGED <<opts, fs, results, ctx, fault, call, ret>>

\* walkDir returns its stats: the caller adds them to its own; Process returns
\* them to Run, which adds them to totalStats.
Return ==
    /\ stack # <<>>
    /\ stack[1].subdirs = <<>>
    /\ IF Len(stack) = 1
       THEN /\ results' = Append(results, stack[1].stats)
            /\ run' = [run EXCEPT !.total = AddStats(@, stack[1].stats)]
            /\ stack' = <<>>
       ELSE /\ results' = results
            /\ run' = run
            /\ stack' = [Tail(stack) EXCEPT ![1].stats = AddStats(@, stack[1].stats)]
    /\ UNCHANGED <<opts, fs, disk, events, io, ctx, fault, call, ret>>

\* Run after the loop: logger.Summary(totalStats...) and return nil.
Summary ==
    /\ run.pc = "loop"
    /\ stack = <<>>
    /\ Len(results) = MaxRuns
    /\ run' = [run EXCEPT !.pc = "done", !.summary = <<run.total>>]
    /\ UNCHANGED <<opts, fs, disk, stack, events, io, results, ctx, fault, call, ret>>

\* The context is cancelled by whoever holds its cancel function.
Cancel ==
    /\ run.pc = "loop"
    /\ ~ctx.cancelled
    /\ ctx' = [ctx EXCEPT !.cancelled = TRUE]
    /\ UNCHANGED <<opts, fs, disk, stack, events, io, results, fault, run, call, ret>>

Next == Process \/ SkipWalk \/ Recurse \/ Return \/ Summary \/ Cancel

Spec == Init /\ [][Next]_vars

\* Run and walkDir are one sequential goroutine that runs until Run returns:
\* while the loop of Run has not ended (CanStep) the next step of Process,
\* walkDir or Run is taken.  Nobody has to cancel the context.  This is weak
\* fairness of the steps of the program, with their enabling condition
\* written as a state predicate.
CanStep == run.pc = "loop"
FairSpec ==
    Spec /\ ([]<>(~CanStep) \/ []<><<Process \/ SkipWalk \/ Recurse \/ Return \/ Summary>>_vars)

-----------------------------------------------------------------------------
(* What a run did, read off the frames, the logger calls and the file      *)
(* operations                                                              *)

\* q is dir or lies below it.
IsUnder(q, dir) == Len(q) >= Len(dir) /\ SubSeq(q, 1, Len(dir)) = dir
StrictlyUnder(q, dir) == Len(q) > Len(dir) /\ SubSeq(q, 1, Len(dir)) = dir

\* The run after the first is going on or has ended.
LaterRun == (Len(results) >= 1 /\ stack # <<>>) \/ Len(results) >= 2
RunEnded == stack = <<>> /\ Len(results) >= 1

Frames == {stack[k] : k \in 1..Len(stack)}
IoOps == {io[i] : i \in 1..Len(io)}
Events == {events[i] : i \in 1..Len(events)}
SkipEvents == {e \in Events : e.ev = "skipped"}
DirEvents == {e \in Events : e.ev # "skipped"}

Reported(dir, kind) == \E e \in DirEvents : e.ev = kind /\ e.dir = dir
Written(dir) == \E o \in IoOps : o.op = "create" /\ o.dir = dir

\* The directories a run scanned, and those whose manifest it reconciled.
ScannedDirs == {o.dir : o \in {x \in IoOps : x.op = "readdir"}}
ReconciledDirs == {d \in ScannedDirs : ~Reported(d, "trace")}

\* The first skip rule that matches directory p.
FirstRule(p) == matchSkip(JoinSlash(p), TRUE, parseSkipRules(opts.Skip))
\* The skip rules were consulted for entry q and one matched.
PatternSkipped(q) == \E e \in SkipEvents : e.entry = q /\ e.reason = "pattern"
\* The form in which directory p is listed.
Listed(p) == IF opts.DirSlash THEN Last(p) \o <<"/">> ELSE Last(p)

\* Directory p is in the list of discovered directories of its parent, and in
\* the final list when the parent's manifest is reconciled.
ListedInParent(p) ==
    \A g \in Frames :
        IsChildOf(p, g.dir) =>
            /\ Last(p) \in Range(g.dirEntries)
            /\ ~g.skipUpdate => Listed(p) \in Range(g.final)

\* Entry q is in no list of its parent.
UnlistedInParent(q) ==
    \A g \in Frames :
        IsChildOf(q, g.dir) =>
            /\ Last(q) \notin Range(g.dirEntries) \cup Range(g.fileEntries)
            /\ \A c \in Range(g.subdirs) : c.name # Last(q)
            /\ Last(q) \notin Range(g.final)
            /\ Last(q) \o <<"/">> \notin Range(g.final)

\* Nothing at or below directory p was visited: no file operation, no call of
\* walkDir, no logger call for a manifest at or below p or an entry below p.
Unvisited(p) ==
    /\ \A o \in IoOps : ~IsUnder(o.dir, p)
    /\ \A g \in Frames : ~IsUnder(g.dir, p)
    /\ \A e \in DirEvents : ~IsUnder(e.dir, p)
    /\ \A e \in SkipEvents : ~StrictlyUnder(e.entry, p)

\* The entries scanEntries reads in the directory of frame g.
EntriesOf(g) == Range(ReadDir(fs, disk, g.dir))
\* Entry e of the directory of frame g gets as far as the ignore matcher.
ReachesMatcher(e) == ~isKustomization(e.name) /\ (opts.IncludeDot \/ ~HasPrefix(e.name, <<".">>))
IsIgnored(g, e) ==
    ReachesMatcher(e) /\ g.matcher # <<>> /\ Ignored(g.matcher, Append(g.dir, e.name), e.isDir)
\* Entry e gets as far as the skip rules.
ReachesRules(g, e) == ReachesMatcher(e) /\ ~IsIgnored(g, e)

-----------------------------------------------------------------------------
(* Claims on Spec *)

\* C3: a run converges in one step.  In a run after the first, with the same
\* options and a tree changed by nothing but the manifests the run before
\* wrote, no manifest is written or changed, nothing is reported as updated,
\* and the run returns updated, added, removed and reordered 0 and one no-op
\* for each directory it reconciled.
C3_SecondRunNoOp ==
    LaterRun =>
        /\ \A o \in IoOps : o.op # "create"
        /\ \A e \in Events : e.ev # "updated"
        /\ \A f \in Frames : ~f.updated /\ disk[f.dir][f.manifest] = f.before
        /\ RunEnded =>
              results[Len(results)] = ResourceStats(0, 0, 0, 0, Cardinality(ReconciledDirs))

\* The second run has ended; the first one wrote manifests, dropping a stale
\* entry, and the second one found each of them in place.
C3_Witness ==
    /\ RunEnded
    /\ Len(results) = 2
    /\ results[1].Updated >= 3
    /\ results[1].Removed >= 1
    /\ results[2].NoOp >= 3
    /\ results[2].Updated = 0

\* The entries of a list with every repetition after the first left out.
RECURSIVE FirstOccurrences(_)
FirstOccurrences(s) ==
    IF s = <<>> THEN <<>>
    ELSE LET front == FirstOccurrences(SubSeq(s, 1, Len(s) - 1))
         IN  IF s[Len(s)] \in Range(front) THEN front ELSE Append(front, s[Len(s)])

\* The manifest of frame f was left as it was and reported as a no-op.
LeftAsNoOp(f) ==
    /\ ~Written(f.dir)
    /\ disk[f.dir][f.manifest] = f.before
    /\ Reported(f.dir, "noop")
    /\ ~Reported(f.dir, "updated")
    /\ ~f.updated

\* The manifest of frame f was rewritten to hold final and reported as updated.
RewrittenToFinal(f) ==
    /\ Written(f.dir)
    /\ disk[f.dir][f.manifest].kind = "file"
    /\ Len(ManagedNodes(disk[f.dir][f.manifest])) = Len(f.final)
    /\ ManagedList(disk[f.dir][f.manifest]) = f.final
    /\ Reported(f.dir, "updated")
    /\ ~Reported(f.dir, "noop")
    /\ f.updated

\* C4 as stated: the manifest of a directory that is not exempted is left
\* unwritten and reported as a no-op if and only if the final list equals the
\* managed list in the manifest with the same entries, multiplicity and order;
\* otherwise it is rewritten to hold the final list and reported as updated.
C4_Original ==
    \A f \in Frames :
        ~f.skipUpdate =>
            /\ LeftAsNoOp(f) <=> f.final = ManagedList(f.before)
            /\ f.final # ManagedList(f.before) => RewrittenToFinal(f)

\* C4, amended: the manifest of a directory that is not exempted is left
\* unwritten and reported as a no-op if and only if the final list equals the
\* scalar entries of the managed list in the manifest with every repeated
\* entry after its first occurrence left out, in the same order; otherwise it
\* is rewritten to hold the final list and reported as updated.
C4_NoOpIffFinalEqualsFirstOccurrences ==
    \A f \in Frames :
        ~f.skipUpdate =>
            /\ LeftAsNoOp(f) <=> f.final = FirstOccurrences(ManagedList(f.before))
            /\ f.final # FirstOccurrences(ManagedList(f.before)) => RewrittenToFinal(f)

\* A manifest that lists s.yml twice is left as it is, a no-op, beside a
\* directory whose manifest is rewritten.
C4_Witness ==
    /\ Len(results) = 0
    /\ \E f \in Frames :
          /\ f.dir = <<S_app, S_db>>
          /\ ManagedList(f.before) = <<S_s_yml, S_s_yml>>
          /\ f.final = <<S_s_yml>>
          /\ LeftAsNoOp(f)
    /\ \E f \in Frames : f.dir = <<S_app>> /\ RewrittenToFinal(f)

\* The skip rules were consulted for directory p and the first that matches
\* is of the given mode.
SkippedAs(p, mode) ==
    /\ p \in fs.dirs
    /\ PatternSkipped(p)
    /\ FirstRule(p).skip
    /\ FirstRule(p).mode = mode

\* Frame f holds each child of its directory as the child's own decision says.
ChildrenOnTheirOwn(f) ==
    \A e \in EntriesOf(f) :
        LET decision == entryDecision(opts, parseSkipRules(opts.Skip), f.matcher,
                                      Append(f.dir, e.name), e)
        IN  /\ decision = "dir" => e.name \in Range(f.dirEntries)
            /\ decision = "file" => e.name \in Range(f.fileEntries)
            /\ decision \in {"gitignore", "dot", "reserved", "none"} =>
                  e.name \notin Range(f.dirEntries) \cup Range(f.fileEntries)

\* C5: when the first skip rule that matches directory P is a subtree rule, P
\* is listed in its parent's resources, the manifest of P is neither read nor
\* created nor rewritten and stays as it was, and the entries below P are
\* visited and decided on their own: the rule matches no path below P, the
\* exemption passes to no child, and a child's manifest is reconciled.
C5_SubtreeKeepsManifestWalksChildren ==
    /\ \A p \in fs.dirs :
          SkippedAs(p, skipModeSubtree) =>
              /\ ListedInParent(p)
              /\ \A o \in IoOps : o.dir = p => o.op \notin {"readfile", "create"}
              /\ ~Reported(p, "updated") /\ ~Reported(p, "noop")
              /\ \A q \in fs.dirs \cup fs.files :
                    StrictlyUnder(q, p) =>
                        ~ruleMatches(parseSkipRule(FirstRule(p).pattern), JoinSlash(q),
                                     q \in fs.dirs)
              /\ \A f \in Frames :
                    f.dir = p =>
                        /\ f.skipUpdate
                        /\ disk[p][f.manifest] = f.before
                        /\ ChildrenOnTheirOwn(f)
                        /\ f.subdirs = <<>> =>
                              \A name \in Range(f.dirEntries) :
                                  FirstRule(Append(p, name)).mode # skipModeChildren
                                      => Append(p, name) \in ScannedDirs
    /\ \A f \in Frames :
          /\ f.skipUpdate <=> (f.dir # <<>> /\ FirstRule(f.dir).skip
                                 /\ FirstRule(f.dir).mode = skipModeSubtree)
          /\ ~f.skipUpdate => Reported(f.dir, "noop") \/ Reported(f.dir, "updated")

\* app/ is matched by app/**: its stale manifest was left alone while the
\* manifest of app/db/ was created and app/ was listed at the base.
C5_Witness ==
    /\ RunEnded
    /\ Len(results) = 1
    /\ SkippedAs(<<S_app>>, skipModeSubtree)
    /\ ManagedList(disk[<<S_app>>][KustomizationYml]) = <<S_old_yaml>>
    /\ Written(<<S_app, S_db>>)
    /\ Written(<<>>)
    /\ Listed(<<S_app>>) \in Range(ManagedList(disk[<<>>][KustomizationYaml]))

\* C6: when the first skip rule that matches directory P is a children rule,
\* P is listed in its parent's resources and nothing at or below P is visited
\* in the run: no directory is scanned, no manifest read or written, and no
\* event is emitted for a path under P.
C6_ChildrenListedNotVisited ==
    \A p \in fs.dirs :
        SkippedAs(p, skipModeChildren) =>
            /\ ListedInParent(p)
            /\ Unvisited(p)

\* app/ is matched by app/*: it is listed at the base, and app/db/, which
\* holds s.yml, got no manifest.
C6_Witness ==
    /\ RunEnded
    /\ Len(results) = 1
    /\ SkippedAs(<<S_app>>, skipModeChildren)
    /\ Written(<<>>)
    /\ Listed(<<S_app>>) \in Range(ManagedList(disk[<<>>][KustomizationYaml]))
    /\ disk[<<S_app, S_db>>][KustomizationYaml] = NoFile
    /\ <<S_db>> \in ScannedDirs

\* C7: an entry the ignore matcher reports as ignored is in no list of its
\* directory, an ignored directory is not walked, and one skip event, with
\* the reason gitignore, is emitted for it; the matcher is asked before the
\* skip rules, so this holds of a directory a children or subtree rule matches.
C7_IgnoredExcluded ==
    \A g \in Frames :
        \A e \in EntriesOf(g) :
            IsIgnored(g, e) =>
                /\ UnlistedInParent(Append(g.dir, e.name))
                /\ e.isDir => Unvisited(Append(g.dir, e.name))
                /\ Cardinality({i \in 1..Len(events) :
                                   /\ events[i].ev = "skipped"
                                   /\ events[i].entry = Append(g.dir, e.name)}) = 1
                /\ \A x \in SkipEvents :
                      x.entry = Append(g.dir, e.name) => x.reason = "gitignore"

\* app/ is ignored at the base and matched by a children or subtree rule: it
\* is not listed in the manifest written at the base.
C7_Witness ==
    /\ RunEnded
    /\ Len(results) = 1
    /\ FirstRule(<<S_app>>).skip
    /\ FirstRule(<<S_app>>).mode \in {skipModeChildren, skipModeSubtree}
    /\ \E x \in SkipEvents : x.entry = <<S_app>> /\ x.reason = "gitignore"
    /\ Written(<<>>)
    /\ Listed(<<S_db>>) \in Range(ManagedList(disk[<<>>][KustomizationYaml]))
    /\ Listed(<<S_app>>) \notin Range(ManagedList(disk[<<>>][KustomizationYaml]))

\* The skip rules were consulted for entry q and the one that matched first
\* is the exact rule written raw.
ExactSkippedBy(q, raw) ==
    \E e \in SkipEvents :
        /\ e.entry = q
        /\ e.reason = "pattern"
        /\ e.pattern = raw
        /\ parseSkipRule(raw).mode = skipModeExact
ExactSkipped(q) == \E i \in 1..Len(opts.Skip) : ExactSkippedBy(q, opts.Skip[i])

\* Entry q is excluded: not listed, and when a directory not walked.
Excluded(q) ==
    /\ UnlistedInParent(q)
    /\ q \in fs.dirs => Unvisited(q)

\* What an exact pattern matches, as stated: whether it is taken by its final
\* segment depends on the pattern as written holding a separator.
MatchesAsWritten(raw, q) ==
    IF Contains(raw, "/")
    THEN JoinSlash(q) = TrimSuffix(raw, <<"/">>)
    ELSE Last(q) = raw

\* The same, with the separator looked for after one trailing separator was
\* trimmed from the pattern.
MatchesTrimmed(raw, q) ==
    IF Contains(TrimSuffix(raw, <<"/">>), "/")
    THEN JoinSlash(q) = TrimSuffix(raw, <<"/">>)
    ELSE Last(q) = TrimSuffix(raw, <<"/">>)

\* The first skip rule is an exact one.
ExactFirst == opts.Skip # <<>> /\ parseSkipRule(opts.Skip[1]).mode = skipModeExact

\* C8 as stated: an entry whose first matching rule is exact is excluded, and
\* an exact pattern without a separator excludes every entry of that name at
\* any depth while a pattern with a separator matches only the entry whose
\* relative path equals it after one trailing separator is trimmed.
C8_Original ==
    /\ \A q \in fs.dirs \cup fs.files : ExactSkipped(q) => Excluded(q)
    /\ ExactFirst =>
          \A g \in Frames :
              \A e \in EntriesOf(g) :
                  ReachesRules(g, e) =>
                      (ExactSkippedBy(Append(g.dir, e.name), opts.Skip[1])
                          <=> MatchesAsWritten(opts.Skip[1], Append(g.dir, e.name)))

\* C8, amended: an entry whose first matching rule is exact is excluded: a
\* file is not listed, a directory neither listed nor walked.  An exact
\* pattern that holds no separator once one trailing separator is trimmed
\* excludes every entry whose final segment is the trimmed pattern, at any
\* depth; one that still holds a separator matches only the entry whose
\* relative path equals the trimmed pattern.
C8_ExactExcludesByTrimmedPattern ==
    /\ \A q \in fs.dirs \cup fs.files : ExactSkipped(q) => Excluded(q)
    /\ ExactFirst =>
          \A g \in Frames :
              \A e \in EntriesOf(g) :
                  ReachesRules(g, e) =>
                      (ExactSkippedBy(Append(g.dir, e.name), opts.Skip[1])
                          <=> MatchesTrimmed(opts.Skip[1], Append(g.dir, e.name)))

\* The pattern db/ has excluded db/ at the base and app/db/ below it.
C8_Witness ==
    /\ RunEnded
    /\ Len(results) = 1
    /\ opts.Skip = <<P_db_slash>>
    /\ ExactSkippedBy(<<S_db>>, P_db_slash)
    /\ ExactSkippedBy(<<S_app, S_db>>, P_db_slash)
    /\ <<S_app>> \in ScannedDirs
    /\ <<S_app, S_db>> \notin ScannedDirs
    /\ Written(<<>>)
    /\ Listed(<<S_db>>) \notin Range(ManagedList(disk[<<>>][KustomizationYaml]))

\* The top-level fields of a manifest as pairs of key and value, in order.
Pairs(content) == [j \in 1..(Len(content) \div 2) |-> <<content[2 * j - 1], content[2 * j]>>]
RemoveAt(s, n) == [j \in 1..(Len(s) - 1) |-> IF j < n THEN s[j] ELSE s[j + 1]]
\* The fields other than the managed list (the value of the first resources key).
OtherFields(file) ==
    IF ResourceKeys(file.root.Content[1]) = {}
    THEN Pairs(file.root.Content[1].Content)
    ELSE RemoveAt(Pairs(file.root.Content[1].Content),
                  FindResources(ResourceKeys(file.root.Content[1])) \div 2)

\* t holds the elements of s in the order of s, possibly among others.
RECURSIVE Embeds(_, _)
Embeds(s, t) ==
    IF s = <<>> THEN TRUE
    ELSE IF t = <<>> THEN FALSE
    ELSE IF Head(s) = Head(t) THEN Embeds(Tail(s), Tail(t))
    ELSE Embeds(s, Tail(t))

\* C10: a rewrite changes only the managed list: each top-level field other
\* than the managed list that the manifest held before is there afterwards
\* with the same value, comments included, and in the same relative order.
C10_RewriteKeepsOtherFields ==
    \A f \in Frames :
        (f.updated /\ f.before.kind = "file") =>
            /\ disk[f.dir][f.manifest].kind = "file"
            /\ Embeds(OtherFields(f.before), OtherFields(disk[f.dir][f.manifest]))

\* The manifest of app/db/ held a commented namespace field and no header; its
\* list lost the stale entry and the field is still there, after the header.
C10_Witness ==
    \E f \in Frames :
        /\ f.dir = <<S_app, S_db>>
        /\ f.updated
        /\ f.before.kind = "file"
        /\ f.stats.Removed = 1
        /\ OtherFields(f.before) = <<NamespacePair>>
        /\ Len(OtherFields(disk[f.dir][f.manifest])) = 3
        /\ OtherFields(disk[f.dir][f.manifest])[3] = NamespacePair

\* C11: cancellation stops the walk.  Once the context handed to Process is
\* cancelled, no step scans a further directory or writes a further manifest:
\* the log of file operations and the manifests stay as they are.
C11_CancelStopsWalk == [][ctx.cancelled => (io' = io /\ disk' = disk)]_vars

\* The steps of a rewrite, lines 257-283.
WriteSteps == {"encode", "create", "writeprefix", "writecontent"}

\* C12: a manifest write is atomic per file.  Whichever step of a rewrite
\* fails, the file holds afterwards either what it held before or the new
\* document in full.
C12_WriteAtomic ==
    (run.pc = "failed" /\ run.failed.op \in WriteSteps) =>
        \/ disk[run.failed.dir][run.failed.manifest] = run.failed.before
        \/ disk[run.failed.dir][run.failed.manifest] = run.failed.intended

\* The operation the filesystem refuses is in the log of operations that
\* succeeded.
RefusedOpDone ==
    \E o \in IoOps :
        /\ o.dir = fault.dir
        /\ o.op = fault.op
        /\ o.op = "stat" => o.name = fault.name
\* A manifest was created on a name a directory holds.
CreatedOnDirectory ==
    \E o \in IoOps : o.op = "create" /\ disk[o.dir][o.name].kind = "dir"

\* Process has returned an error: the stack is unwound, no summary is logged,
\* nothing was done after the step that failed, and a manifest that could not
\* be read or parsed is as it was.
Aborted ==
    /\ stack = <<>>
    /\ run.summary = <<>>
    /\ \A i, j \in 1..Len(io) :
          (i < j /\ io[i].dir = run.failed.dir) => io[j].dir = run.failed.dir
    /\ \A e \in DirEvents : e.dir # run.failed.dir
    /\ run.failed.op \in {"open", "readdir", "stat", "readfile", "parse"} =>
          disk[run.failed.dir][run.failed.manifest] = run.failed.before
    /\ run.failed.op \in {"open", "readdir", "stat", "readfile", "parse", "encode", "create"} =>
          ~Written(run.failed.dir)

\* The step that reports the error adds no stats; after it nothing happens.
AbortStep ==
    /\ run'.pc = "failed" => (results' = results /\ run'.total = run.total)
    /\ run.pc = "failed" =>
          UNCHANGED <<disk, stack, events, io, results, run>>

\* C13: a failure to read a directory, load an ignore file, probe, read or
\* parse a manifest, or write a manifest aborts the run at once.  No refused
\* operation passes as done; when Process returns the error, no directory
\* later in the traversal and no later base directory is scanned or written,
\* Run logs no summary, and a manifest that failed to read or parse is
\* unmodified.
C13_FailureAbortsRun ==
    /\ [](~RefusedOpDone /\ ~CreatedOnDirectory /\ (run.pc = "failed" => Aborted))
    /\ [][AbortStep]_vars

\* The manifest of app/ could not be parsed: the base was written before,
\* app/ is as it was, and db/, next in order, was never scanned.
C13_Witness ==
    /\ run.pc = "failed"
    /\ run.failed.op = "parse"
    /\ run.failed.dir = <<S_app>>
    /\ fault.op = "parse"
    /\ Written(<<>>)
    /\ <<S_app>> \in ScannedDirs
    /\ <<S_db>> \notin ScannedDirs
    /\ <<S_app, S_db>> \notin ScannedDirs
    /\ disk[<<S_app>>][KustomizationYml] = StaleApp

-----------------------------------------------------------------------------
(* Claims on SpecMerge: the order of the merged list *)

\* The place of the group of entry e in the normalized group order.
ClaimGroup(e) ==
    IF e \in ClaimRemote(call.existing) THEN resourceGroupRemote
    ELSE IF e \in ClaimDecorated(call.dirEntries) THEN resourceGroupDirs
    ELSE resourceGroupFiles
ClaimRank(e) == IndexIn(normalizeResourceOrder(opts.ResourceOrder), ClaimGroup(e))

Reverse(s) == [i \in 1..Len(s) |-> s[Len(s) + 1 - i]]

\* C14: the merged list is the groups one after the other in the normalized
\* group order, each in ascending byte order: an entry of an earlier group
\* stands before every entry of a later group, two entries of one group stand
\* in ascending order, and the list does not depend on the order in which the
\* entries were discovered or listed before.
C14_MergeGroupedSorted ==
    ret.n >= 1 =>
        /\ \A i, j \in 1..Len(ret.final) :
              i < j =>
                  /\ ClaimRank(ret.final[i]) <= ClaimRank(ret.final[j])
                  /\ ClaimRank(ret.final[i]) = ClaimRank(ret.final[j])
                        => StrLess(ret.final[i], ret.final[j])
        /\ ret.final = mergeResources(opts, Reverse(call.existing),
                                      Reverse(call.dirEntries), Reverse(call.fileEntries))

\* Files first: the files, the remote entries and the directories, each group
\* sorted, out of lists that came in descending order.
C14_Witness ==
    /\ ret.n >= 1
    /\ opts.ResourceOrder = <<resourceGroupFiles>>
    /\ opts.DirSlash
    /\ call.existing = <<RemoteQ, RemoteR>>
    /\ call.dirEntries = <<<<"b">>, <<"a">>>>
    /\ call.fileEntries = <<<<"f", ".", "y", "m", "l">>, <<"c", ".", "y", "a", "m", "l">>>>
    /\ ret.final = <<<<"c", ".", "y", "a", "m", "l">>, <<"f", ".", "y", "m", "l">>,
                     RemoteR, RemoteQ, <<"a", "/">>, <<"b", "/">>>>

-----------------------------------------------------------------------------
(* Specification SpecNormalize: normalizeResourceOrder on a list of names  *)
(* and ParseResourceOrder on the same names written as one value.          *)

MaxParts == 3

\* Group names as a flag value or a caller may spell them: recognized names,
\* names in other case and with blanks around them, an unknown and an empty name.
NormalizeNames == {resourceGroupRemote, resourceGroupDirs, resourceGroupFiles,
                   <<" ", "F", "i", "l", "e", "s">>, <<"D", "I", "R", "S", "\t">>,
                   <<"x">>, <<>>, <<" ">>}

\* The names written as one comma-separated value.
RECURSIVE JoinComma(_)
JoinComma(parts) ==
    IF parts = <<>> THEN <<>>
    ELSE IF Len(parts) = 1 THEN parts[1]
    ELSE parts[1] \o <<",">> \o JoinComma(Tail(parts))

InitNormalize ==
    /\ WalkIdle
    /\ opts = NoOptions
    /\ call \in {[fn |-> "normalizeResourceOrder", parts |-> p, value |-> JoinComma(p)] :
                    p \in SeqsUpTo(NormalizeNames, MaxParts)}
    /\ ret = NoRet

CallNormalize ==
    /\ call.fn = "normalizeResourceOrder"
    /\ ret.n = 0
    /\ ret' = [n |-> 1, out |-> normalizeResourceOrder(call.parts)]
    /\ UNCHANGED <<walkVars, call>>

CallParse ==
    /\ call.fn = "normalizeResourceOrder"
    /\ ret.n = 1
    /\ ret' = [n |-> 2, out |-> ret.out, parsed |-> ParseResourceOrder(call.value)]
    /\ UNCHANGED <<walkVars, call>>

\* The normalized order is normalized again.
CallRenormalize ==
    /\ call.fn = "normalizeResourceOrder"
    /\ ret.n = 2
    /\ ret' = [n |-> 3, out |-> ret.out, parsed |-> ret.parsed,
               again |-> normalizeResourceOrder(ret.out)]
    /\ UNCHANGED <<walkVars, call>>

NextNormalize == CallNormalize \/ CallParse \/ CallRenormalize

SpecNormalize == InitNormalize /\ [][NextNormalize]_vars

ClaimGroups == {resourceGroupRemote, resourceGroupDirs, resourceGroupFiles}
\* The names of the input that are a group name once trimmed and lower-cased.
ClaimRecognized(parts) ==
    SelectSeq([i \in 1..Len(parts) |-> ToLower(TrimSpace(parts[i]))],
              LAMBDA g : g \in ClaimGroups)
ClaimNormalized(parts) ==
    LET named == FirstOccurrences(ClaimRecognized(parts))
    IN  named \o SelectSeq(<<resourceGroupRemote, resourceGroupDirs, resourceGroupFiles>>,
                           LAMBDA g : g \notin Range(named))

\* C15: normalizeResourceOrder returns each of remote, dirs and files exactly
\* once: the names of the input that are a group name after trimming and
\* lower-casing, in order of first occurrence, then the groups not named in
\* default order; unknown, empty and repeated names change nothing, an empty
\* input gives the default order, ParseResourceOrder returns the same order
\* for the names written comma-separated, and normalizing the result again
\* returns it unchanged.
C15_NormalizedOrderIsPermutation ==
    /\ ret.n >= 1 =>
          /\ Len(ret.out) = 3
          /\ Range(ret.out) = ClaimGroups
          /\ ret.out = ClaimNormalized(call.parts)
          /\ ret.out = normalizeResourceOrder(ClaimRecognized(call.parts))
          /\ call.parts = <<>> =>
                ret.out = <<resourceGroupRemote, resourceGroupDirs, resourceGroupFiles>>
    /\ ret.n >= 2 => ret.parsed = ret.out
    /\ ret.n >= 3 => ret.again = ret.out

\* " Files", an unknown name and files again: files once, in front of the
\* groups not named; the same from the parsed value and from a second pass.
C15_Witness ==
    /\ ret.n = 3
    /\ call.parts = <<<<" ", "F", "i", "l", "e", "s">>, <<"x">>, resourceGroupFiles>>
    /\ ret.out = <<resourceGroupFiles, resourceGroupRemote, resourceGroupDirs>>
    /\ ret.parsed = ret.out
    /\ ret.again = ret.out

-----------------------------------------------------------------------------
(* Claims on Spec: what a run leaves on disk *)

\* The top-level keys of a manifest.
TopKeys(file) ==
    {file.root.Content[1].Content[i].Value : i \in KeyIndexes(file.root.Content[1])}
TopValue(file, key) ==
    LET m == file.root.Content[1]
    IN  m.Content[(CHOOSE i \in KeyIndexes(m) : m.Content[i].Value = key) + 1]

\* C16: every manifest a run writes holds both apiVersion and kind, each with
\* the value the manifest had before when it had the field.
C16_WrittenManifestHasBothHeaderFields ==
    \A f \in Frames :
        f.updated =>
            /\ {ApiVersionKey, KindKey} \subseteq TopKeys(disk[f.dir][f.manifest])
            /\ \A k \in {ApiVersionKey, KindKey} :
                  (f.before.kind = "file" /\ k \in TopKeys(f.before)) =>
                      TopValue(disk[f.dir][f.manifest], k) = TopValue(f.before, k)

\* C17: every directory a run reconciled has a manifest file whose managed
\* list is the final list of the directory.
C17_ReconciledDirectoryHasManifest ==
    \A f \in Frames :
        ~f.skipUpdate =>
            /\ disk[f.dir][f.manifest].kind = "file"
            /\ ManagedList(disk[f.dir][f.manifest]) = f.final

-----------------------------------------------------------------------------
(* Claims on Spec: the manifest file of a directory *)

\* What directory f.dir held under a manifest name when it was scanned: the run
\* writes to f.manifest only.
HeldBefore(f, name) == IF name = f.manifest THEN f.before ELSE disk[f.dir][name]

\* The name the claim as written has the tool pick: any kustomization.yml
\* counts as existing.
TargetAsWritten(f) ==
    IF HeldBefore(f, KustomizationYaml).kind = "file" THEN KustomizationYaml
    ELSE IF HeldBefore(f, KustomizationYml) # NoFile THEN KustomizationYml
    ELSE KustomizationYaml

\* The name picked when only a regular file counts as an existing manifest.
TargetRegular(f) ==
    IF HeldBefore(f, KustomizationYaml).kind = "file" THEN KustomizationYaml
    ELSE IF HeldBefore(f, KustomizationYml).kind = "file" THEN KustomizationYml
    ELSE KustomizationYaml

\* C18 as written: the manifest of a directory is kustomization.yaml if it is a
\* regular file, otherwise the existing kustomization.yml, otherwise a new
\* kustomization.yaml, and kustomization.yaml is never created where something
\* named kustomization.yml exists.
C18_Original ==
    \A f \in Frames :
        /\ f.manifest = TargetAsWritten(f)
        /\ (f.updated /\ f.manifest = KustomizationYaml /\ f.before = NoFile)
              => disk[f.dir][KustomizationYml] = NoFile

\* A stat of a candidate that was refused ended the run with the error.
StatRefusalIsError ==
    \A o \in IoOps :
        (/\ o.op = "readdir"
         /\ fault.op = "stat"
         /\ o.dir = fault.dir
         /\ (fault.name = KustomizationYaml
               \/ disk[fault.dir][KustomizationYaml].kind # "file"))
        => (/\ run.pc = "failed"
            /\ run.failed.op = "stat"
            /\ \A x \in IoOps : x.dir = fault.dir => x.op \notin {"readfile", "create"})

\* A step writes kustomization.yaml where it was no regular file only if
\* kustomization.yml is no regular file either, and writes kustomization.yml
\* only over a regular file, when kustomization.yaml is none.
WritesOneName ==
    \A dir \in AllDirs :
        /\ (disk'[dir][KustomizationYaml] # disk[dir][KustomizationYaml]
              /\ disk[dir][KustomizationYaml].kind # "file")
              => disk[dir][KustomizationYml].kind # "file"
        /\ disk'[dir][KustomizationYml] # disk[dir][KustomizationYml]
              => (/\ disk[dir][KustomizationYml].kind = "file"
                  /\ disk[dir][KustomizationYaml].kind # "file")

\* C18: in each directory the tool targets one manifest: kustomization.yaml if
\* it is a regular file, otherwise kustomization.yml if that is a regular file,
\* otherwise a new kustomization.yaml; a run never creates kustomization.yaml
\* beside a regular file kustomization.yml, never writes both names in one
\* directory, and a refused stat ends the run with the error.
C18_OneManifestPerDirectory ==
    /\ [](/\ \A f \in Frames : f.manifest = TargetRegular(f)
          /\ \A o1, o2 \in IoOps :
                (o1.op = "create" /\ o2.op = "create" /\ o1.dir = o2.dir)
                    => o1.name = o2.name
          /\ StatRefusalIsError)
    /\ [][WritesOneName]_vars

\* app/ holds a directory named kustomization.yaml and a file kustomization.yml:
\* the file was rewritten; app/db/ holds a directory named kustomization.yml
\* and got a new kustomization.yaml.
C18_Witness ==
    /\ \E f \in Frames :
          /\ f.dir = <<S_app>>
          /\ f.manifest = KustomizationYml
          /\ f.updated
          /\ disk[<<S_app>>][KustomizationYaml] = DirFile
    /\ \E f \in Frames :
          /\ f.dir = <<S_app, S_db>>
          /\ f.manifest = KustomizationYaml
          /\ f.updated
          /\ f.before = NoFile
          /\ disk[<<S_app, S_db>>][KustomizationYml] = DirFile

\* The stat of kustomization.yml in app/ was refused: the run ended with the
\* error and app/ got no manifest.
C18_WitnessStat ==
    /\ run.pc = "failed"
    /\ run.failed.op = "stat"
    /\ fault.name = KustomizationYml
    /\ fault.dir = <<S_app>>
    /\ disk[<<S_app>>][KustomizationYaml] = NoFile

-----------------------------------------------------------------------------
(* Claims on Spec: events and totals *)

\* How many update or no-op events the run emitted for directory d.
ReconcileEvents(d) ==
    Cardinality({i \in 1..Len(events) :
                    events[i].ev \in {"updated", "noop"} /\ events[i].dir = d})
CountEvents(kind) == Cardinality({i \in 1..Len(events) : events[i].ev = kind})

\* The per-directory values the run logged, summed: the entries a diff shows
\* as added and as removed, and the updates whose change names the order.
RECURSIVE LoggedTotals(_)
LoggedTotals(evs) ==
    IF evs = <<>> THEN [Reordered |-> 0, Added |-> 0, Removed |-> 0]
    ELSE LET rest == LoggedTotals(Tail(evs))
             e == Head(evs)
         IN  IF e.ev = "diff"
             THEN [rest EXCEPT !.Added = @ + Cardinality(Range(e.new) \ Range(e.old)),
                               !.Removed = @ + Cardinality(Range(e.old) \ Range(e.new))]
             ELSE IF e.ev = "updated" /\ "order" \in Range(e.change)
             THEN [rest EXCEPT !.Reordered = @ + 1]
             ELSE rest

RECURSIVE SumOfResults(_)
SumOfResults(rs) ==
    IF rs = <<>> THEN [Reordered |-> 0, Added |-> 0, Removed |-> 0, Updated |-> 0, NoOp |-> 0]
    ELSE LET rest == SumOfResults(Tail(rs))
         IN  [Reordered |-> rs[1].Reordered + rest.Reordered,
              Added |-> rs[1].Added + rest.Added,
              Removed |-> rs[1].Removed + rest.Removed,
              Updated |-> rs[1].Updated + rest.Updated,
              NoOp |-> rs[1].NoOp + rest.NoOp]

\* The stats Process returned are the per-directory values of its run, summed,
\* and Run's total is the sum over the base directories processed.
TotalsAreSums ==
    /\ RunEnded =>
          LET last == results[Len(results)]
              logged == LoggedTotals(events)
          IN  /\ last.Updated = CountEvents("updated")
              /\ last.NoOp = CountEvents("noop")
              /\ last.Reordered = logged.Reordered
              /\ last.Added = logged.Added
              /\ last.Removed = logged.Removed
    /\ stack = <<>> => run.total = SumOfResults(results)
    /\ run.pc = "done" => run.summary = <<SumOfResults(results)>>

\* C19 as written: every directory a successful run visited has exactly one
\* update or no-op event, and updated + no-op of the run is the number of
\* directories visited.
C19_Original ==
    run.pc # "failed" =>
        /\ \A d \in ScannedDirs : ReconcileEvents(d) = 1
        /\ RunEnded =>
              results[Len(results)].Updated + results[Len(results)].NoOp
                  = Cardinality(ScannedDirs)

\* C19: every directory a successful run visited and did not exempt from
\* updating has exactly one update or no-op event, an exempted directory has
\* none; updated + no-op is the number of directories visited and not
\* exempted, and each of the five totals is the sum of the per-directory
\* values, over the directories of a run and over the base directories.
C19_OneEventPerReconciledDirectory ==
    run.pc # "failed" =>
        /\ \A d \in ScannedDirs :
              ReconcileEvents(d) = (IF Reported(d, "trace") THEN 0 ELSE 1)
        /\ \A d \in AllDirs : d \notin ScannedDirs => ReconcileEvents(d) = 0
        /\ RunEnded =>
              results[Len(results)].Updated + results[Len(results)].NoOp
                  = Cardinality(ReconciledDirs)
        /\ TotalsAreSums

\* Both runs over a tree whose app/ is exempted have ended: the first updated
\* and added, the second found nothing to do, and the summary is their sum.
C19_Witness ==
    /\ run.pc = "done"
    /\ Reported(<<S_app>>, "trace")
    /\ Cardinality(ReconciledDirs) >= 2
    /\ Cardinality(ScannedDirs) > Cardinality(ReconciledDirs)
    /\ results[1].Updated >= 2
    /\ results[1].Added >= 2
    /\ results[2].NoOp >= 2
    /\ run.summary[1].Updated = results[1].Updated + results[2].Updated
    /\ run.summary[1].NoOp = results[1].NoOp + results[2].NoOp

-----------------------------------------------------------------------------
(* Claims on Spec: the files of the resource list *)

\* name ends in ext, letters compared without regard to case.
EndsInNoCase(name, ext) ==
    /\ Len(name) >= Len(ext)
    /\ \A i \in 1..Len(ext) : ToLowerChar(name[Len(name) - Len(ext) + i]) = ext[i]

ClaimReserved(name) == name \in {KustomizationYaml, KustomizationYml}
ClaimDotDropped(name) == ~opts.IncludeDot /\ name # <<>> /\ name[1] = "."
ClaimIgnored(g, name) == g.matcher # <<>> /\ Ignored(g.matcher, Append(g.dir, name), FALSE)
ClaimRuleMatches(g, name) ==
    matchSkip(JoinSlash(Append(g.dir, name)), FALSE, parseSkipRules(opts.Skip)).skip
ClaimEligible(g, name) ==
    /\ ~ClaimReserved(name)
    /\ ~ClaimDotDropped(name)
    /\ ~ClaimIgnored(g, name)
    /\ ~ClaimRuleMatches(g, name)
    /\ (EndsInNoCase(name, <<".", "y", "a", "m", "l">>) \/ EndsInNoCase(name, <<".", "y", "m", "l">>))

\* C20: a file of a scanned directory is in the list of discovered files if
\* and only if its name is no reserved manifest name, it is not dot-prefixed
\* or dot entries are included, it is not ignored, no skip rule matches it and
\* its name ends in .yaml or .yml in any case; an entry that is reserved or
\* dropped for its dot has no skip event.
C20_FileListedIffEligible ==
    \A g \in Frames :
        \A e \in EntriesOf(g) :
            /\ ~e.isDir => (e.name \in Range(g.fileEntries) <=> ClaimEligible(g, e.name))
            /\ e.isDir => e.name \notin Range(g.fileEntries)
            /\ (ClaimReserved(e.name) \/ ClaimDotDropped(e.name))
                  => \A x \in SkipEvents : x.entry # Append(g.dir, e.name)

\* app/ scanned under the skip rule *.yaml with dot entries left out: U.YML is
\* listed, m.yaml is skipped by the rule, .d.yaml is dropped without an event.
C20_Witness ==
    \E g \in Frames :
        /\ g.dir = <<S_app>>
        /\ ~opts.IncludeDot
        /\ {S_m_yaml, S_U_YML, S_dot_yaml} \subseteq {e.name : e \in EntriesOf(g)}
        /\ g.fileEntries = <<S_U_YML>>
        /\ PatternSkipped(<<S_app, S_m_yaml>>)
        /\ \A x \in SkipEvents : x.entry # <<S_app, S_dot_yaml>>

\* With dot entries included .d.yaml is listed, and a .gitignore line keeps
\* m.yaml out.
C20_WitnessDot ==
    \E g \in Frames :
        /\ g.dir = <<S_app>>
        /\ opts.IncludeDot
        /\ S_dot_yaml \in Range(g.fileEntries)
        /\ S_m_yaml \notin Range(g.fileEntries)
        /\ ClaimIgnored(g, S_m_yaml)

-----------------------------------------------------------------------------
(* Claims on Spec: the matcher chain *)

\* The patterns of the rule file of directory d, none when it has no rule file.
ClaimPatterns(d) ==
    IF d \in DOMAIN fs.gitignore
    THEN {TrimSpace(fs.gitignore[d][i]) : i \in 1..Len(fs.gitignore[d])}
            \ ({<<>>} \cup {l \in {TrimSpace(fs.gitignore[d][i]) : i \in 1..Len(fs.gitignore[d])} :
                              l # <<>> /\ l[1] = "#"})
    ELSE {}

\* Some directory from d up to the base has a pattern that matches path q
\* taken relative to that directory.
MatchedOnChain(d, q, isDir) ==
    \E k \in 0..Len(d) :
        \E pat \in ClaimPatterns(SubSeq(d, 1, k)) :
            matchesPattern(JoinSlash(SubSeq(q, k + 1, Len(q))), pat, isDir)

\* The directories of the chain of d: d, its parent, ... , the base.
ChainDirs(d) == [i \in 1..(Len(d) + 1) |-> SubSeq(d, 1, Len(d) + 1 - i)]

\* C21: the matcher of a scanned directory d is the chain of d and its
\* ancestors up to the base, closest first; it ignores an entry if and only if
\* a directory of the chain has a pattern that matches the entry's path
\* relative to that directory, so what the matcher of an ancestor ignores the
\* matcher of d ignores; a rule file above the base is not in the chain; with
\* ignore processing off there is no matcher and nothing is ignored.
C21_IgnoredIffMatchedOnChain ==
    \A g \in Frames :
        /\ ~opts.UseGitIgnore =>
              /\ g.matcher = <<>>
              /\ \A x \in SkipEvents : x.reason # "gitignore"
        /\ opts.UseGitIgnore =>
              [i \in 1..Len(g.matcher) |-> g.matcher[i].dir] = ChainDirs(g.dir)
        /\ \A e \in EntriesOf(g) :
              /\ Ignored(g.matcher, Append(g.dir, e.name), e.isDir)
                    <=> (opts.UseGitIgnore /\ MatchedOnChain(g.dir, Append(g.dir, e.name), e.isDir))
              /\ (ReachesMatcher(e) /\ opts.UseGitIgnore
                      /\ MatchedOnChain(g.dir, Append(g.dir, e.name), e.isDir))
                    <=> (\E x \in SkipEvents :
                            x.entry = Append(g.dir, e.name) /\ x.reason = "gitignore")
              /\ \A h \in Frames :
                    (IsUnder(g.dir, h.dir) /\ Ignored(h.matcher, Append(g.dir, e.name), e.isDir))
                        => Ignored(g.matcher, Append(g.dir, e.name), e.isDir)

\* app/ has the rule d?/ and the base the rule app/m.yaml: in app/ the file
\* m.yaml is ignored by the rule of the base, db/ by the rule of app/.
C21_Witness ==
    \E g \in Frames :
        /\ g.dir = <<S_app>>
        /\ opts.UseGitIgnore
        /\ Len(g.matcher) = 2
        /\ ~Ignored(<<g.matcher[1]>>, <<S_app, S_m_yaml>>, FALSE)
        /\ Ignored(g.matcher, <<S_app, S_m_yaml>>, FALSE)
        /\ Ignored(<<g.matcher[1]>>, <<S_app, S_db>>, TRUE)
        /\ \E x \in SkipEvents : x.entry = <<S_app, S_m_yaml>> /\ x.reason = "gitignore"
        /\ \E x \in SkipEvents : x.entry = <<S_app, S_db>> /\ x.reason = "gitignore"

\* The directory above the base has a rule file that names app/ and b.yaml:
\* both are listed at the base and app/ is walked.
C21_WitnessAbove ==
    /\ Above \in DOMAIN fs.gitignore
    /\ opts.UseGitIgnore
    /\ opts.Skip = <<>>
    /\ \E g \in Frames : g.dir = <<S_app>>
    /\ \E g \in Frames :
          /\ g.dir = <<>>
          /\ S_app \in Range(g.dirEntries)
          /\ S_b_yaml \in Range(g.fileEntries)

-----------------------------------------------------------------------------
(* Specification SpecSkip: matchSkip on a rule list and a path, and        *)
(* handleSkipDir on its result for a directory.                            *)

MaxRules == 2

P_root_children == <<"/", "*">>
P_app_db_children == <<"a", "p", "p", "/", "d", "b", "/", "*">>
SkipPatterns == {P_app, P_app_slash, P_app_children, P_app_subtree, P_db, P_app_db,
                 P_glob_yaml, P_glob_d, P_root_children, P_app_db_children,
                 P_class, P_malformed, P_escaped}
\* Paths relative to the base, as scanEntries builds them: the segments from
\* the base to the entry.
SkipPaths == {<<S_app>>, <<S_db>>, <<S_b_yaml>>, <<S_app, S_db>>, <<S_app, S_m_yaml>>,
              <<S_app, S_db, S_s_yml>>, <<S_db, S_app>>, <<S_app, S_db, S_db>>,
              <<P_malformed>>, <<<<"*">>>>}

InitSkip ==
    /\ WalkIdle
    /\ opts \in {[NoOptions EXCEPT !.Skip = ps] : ps \in SeqsUpTo(SkipPatterns, MaxRules)}
    /\ call \in {[fn |-> "matchSkip", path |-> q, isDir |-> d] :
                    q \in SkipPaths, d \in BOOLEAN}
    /\ ret = NoRet

\* matchSkip(rel, entry.IsDir(), p.skipRules), and the same for each rule alone.
CallMatchSkip ==
    /\ call.fn = "matchSkip"
    /\ ret.n = 0
    /\ ret' = [n |-> 1,
               rules |-> parseSkipRules(opts.Skip),
               m |-> matchSkip(JoinSlash(call.path), call.isDir, parseSkipRules(opts.Skip)),
               each |-> [i \in 1..Len(opts.Skip) |->
                            matchSkip(JoinSlash(call.path), call.isDir,
                                      <<parseSkipRule(opts.Skip[i])>>).skip]]
    /\ UNCHANGED <<walkVars, call>>

\* scanEntries for a directory that matched: handleSkipDir on empty lists.
CallHandleSkipDir ==
    /\ call.fn = "matchSkip"
    /\ ret.n = 1
    /\ ret.m.skip
    /\ call.isDir
    /\ ret' = [n |-> 2, rules |-> ret.rules, m |-> ret.m, each |-> ret.each,
               handled |-> handleSkipDir(Last(call.path), ret.m.mode, <<>>, <<>>)]
    /\ UNCHANGED <<walkVars, call>>

NextSkip == CallMatchSkip \/ CallHandleSkipDir

SpecSkip == InitSkip /\ [][NextSkip]_vars

\* The rules that match the path, each taken alone.
Hits == {i \in 1..Len(opts.Skip) : ret.each[i]}
FirstHit == CHOOSE i \in Hits : \A j \in Hits : i <= j

\* C22: matchSkip returns the mode and the raw pattern of the first rule in
\* configuration order that matches, and no skip only when no rule matches;
\* the rules after the first match change nothing.  With [app, app/**] the
\* directory app is dropped as an exact match, with [app/**, app] it is
\* listed and exempted as a subtree match.
C22_FirstMatchingRuleWins ==
    ret.n >= 1 =>
        /\ ret.m.skip <=> Hits # {}
        /\ Hits = {} => ret.m = [skip |-> FALSE, mode |-> skipModeExact, pattern |-> <<>>]
        /\ Hits # {} =>
              /\ ret.m.mode = ret.rules[FirstHit].mode
              /\ ret.m.pattern = opts.Skip[FirstHit]
              /\ ret.m = matchSkip(JoinSlash(call.path), call.isDir,
                                   parseSkipRules(SubSeq(opts.Skip, 1, FirstHit)))
        /\ (ret.n = 2 /\ call.path = <<S_app>> /\ opts.Skip = <<P_app, P_app_subtree>>) =>
              /\ ret.m.mode = skipModeExact
              /\ ret.handled = [dirEntries |-> <<>>, childDirs |-> <<>>]
        /\ (ret.n = 2 /\ call.path = <<S_app>> /\ opts.Skip = <<P_app_subtree, P_app>>) =>
              /\ ret.m.mode = skipModeSubtree
              /\ ret.handled = [dirEntries |-> <<S_app>>,
                                childDirs |-> <<[name |-> S_app, skipUpdate |-> TRUE,
                                                 skipWalk |-> FALSE]>>]

\* Directory app under [app/**, app]: both rules match, the first decides.
C22_Witness ==
    /\ ret.n = 2
    /\ call.path = <<S_app>>
    /\ opts.Skip = <<P_app_subtree, P_app>>
    /\ Hits = {1, 2}
    /\ ret.m.mode = skipModeSubtree
    /\ ret.handled.dirEntries = <<S_app>>

C22_WitnessExact ==
    /\ ret.n = 2
    /\ call.path = <<S_app>>
    /\ opts.Skip = <<P_app, P_app_subtree>>
    /\ Hits = {1, 2}
    /\ ret.m.mode = skipModeExact
    /\ ret.handled.dirEntries = <<>>

\* The patterns X/* of the rule list, and X.
IsChildrenPattern(raw) ==
    /\ HasSuffix(raw, <<"/", "*">>)
    /\ ~HasSuffix(raw, <<"*", "/", "*">>)
PrefixOf(raw) == SubSeq(raw, 1, Len(raw) - 2)
\* The path is X/s for one segment s.
OneBelow(path, X) == path # <<>> /\ JoinSlash(SubSeq(path, 1, Len(path) - 1)) = X

\* C23 as written: the rule of X/* matches X itself and every X/s, file or
\* directory, and nothing else.
C23_Original ==
    ret.n >= 1 =>
        \A i \in 1..Len(opts.Skip) :
            IsChildrenPattern(opts.Skip[i]) =>
                (ret.each[i] <=> (\/ JoinSlash(call.path) = PrefixOf(opts.Skip[i])
                                  \/ OneBelow(call.path, PrefixOf(opts.Skip[i]))))

\* C23: the rule of X/* is a children rule with value X; it matches the path
\* X itself when the entry is a directory and every path X/s with one further
\* segment, file or directory; it matches nothing deeper and nothing outside
\* X, and with an empty X every single-segment path.
C23_ChildrenRuleMatchesOneLevel ==
    ret.n >= 1 =>
        \A i \in 1..Len(opts.Skip) :
            IsChildrenPattern(opts.Skip[i]) =>
                /\ ret.rules[i].mode = skipModeChildren
                /\ ret.rules[i].value = PrefixOf(opts.Skip[i])
                /\ ret.each[i] <=> (\/ (call.isDir /\ JoinSlash(call.path) = PrefixOf(opts.Skip[i]))
                                    \/ OneBelow(call.path, PrefixOf(opts.Skip[i])))
                /\ (PrefixOf(opts.Skip[i]) = <<>> /\ Len(call.path) = 1) => ret.each[i]

\* app/* against the file app/m.yaml: matched; and against app/db/s.yml, two
\* segments below: not matched.
C23_Witness ==
    /\ ret.n >= 1
    /\ opts.Skip = <<P_app_children, P_root_children>>
    /\ call.path = <<S_app, S_m_yaml>>
    /\ ~call.isDir
    /\ ret.each = <<TRUE, FALSE>>

C23_WitnessDeep ==
    /\ ret.n >= 1
    /\ opts.Skip = <<P_app_children>>
    /\ call.path = <<S_app, S_db, S_s_yml>>
    /\ ret.each = <<FALSE>>

-----------------------------------------------------------------------------
(* Claims on SpecOrder: diffEntries *)

Over(n, m) == IF n > m THEN n - m ELSE 0
RemovedCount(d, e) == IF e \in DOMAIN d.removed THEN d.removed[e] ELSE 0

\* C24: diffEntries(existing, final) returns as added the entries of final
\* over those of existing, counted with multiplicity and in the order of
\* final, and as removed the entries of existing over those of final; no entry
\* is in both, an entry both lists hold is in neither, and
\* len(final) - len(existing) = len(added) - len(removed).
C24_DiffIsMultisetDifference ==
    ret.n = 1 =>
        /\ \A e \in Range(call.old) \cup Range(call.new) :
              /\ Count(ret.diff.added, e) = Over(Count(call.new, e), Count(call.old, e))
              /\ RemovedCount(ret.diff, e) = Over(Count(call.old, e), Count(call.new, e))
        /\ Range(ret.diff.added) \subseteq Range(call.new)
        /\ DOMAIN ret.diff.removed \subseteq Range(call.old)
        /\ IsSubsequence(ret.diff.added, call.new)
        /\ Range(ret.diff.added) \cap DOMAIN ret.diff.removed = {}
        /\ \A e \in Range(call.old) \cap Range(call.new) :
              e \notin Range(ret.diff.added) /\ e \notin DOMAIN ret.diff.removed
        /\ Len(call.new) - Len(call.old) = Len(ret.diff.added) - RemovedLen(ret.diff)

\* [a, b, c] against [b, d, a]: d is added, c removed, a and b in neither.
C24_Witness ==
    /\ ret.n = 1
    /\ call.old = <<<<"a">>, <<"b">>, <<"c">>>>
    /\ call.new = <<<<"b">>, <<"d">>, <<"a">>>>
    /\ ret.diff.added = <<<<"d">>>>
    /\ DOMAIN ret.diff.removed = {<<"c">>}
    /\ RemovedLen(ret.diff) = 1

-----------------------------------------------------------------------------
(* Specification SpecUpdate: updateKustomization on a manifest with a given *)
(* managed list, for given discovered directories and files.               *)

MaxListed == 2

\* The nodes a managed list may hold: directories written with and without
\* the slash, a remote entry under two different comments, a non-scalar node.
UpdateNodes == {NewScalar(<<"a">>), NewScalar(<<"b">>), NewScalar(<<"a", "/">>),
                NewScalar(<<"b", "/">>), Commented(<<"a", "/">>, <<"x">>),
                Commented(RemoteR, <<"1">>), Commented(RemoteR, <<"2">>), NewMapping}

InitUpdate ==
    /\ WalkIdle
    /\ opts \in {[NoOptions EXCEPT !.DirSlash = sl] : sl \in BOOLEAN}
    /\ call \in {[fn |-> "updateKustomization", existing |-> x, dirEntries |-> d,
                  fileEntries |-> f] :
                    x \in SeqsUpTo(UpdateNodes, MaxListed),
                    d \in Arrangements(MergeDirNames),
                    f \in {<<>>, <<<<"f", ".", "y", "m", "l">>>>}}
    /\ ret = NoRet

\* p.updateKustomization(path, true, dirEntries, fileEntries) on a manifest
\* with the header and the managed list; got is what
\* collectExistingResources returns for the list.
CallUpdate ==
    /\ call.fn = "updateKustomization"
    /\ ret.n = 0
    /\ ret' = [n |-> 1,
               got |-> collectExistingResources(ListNode(call.existing)),
               u |-> updateKustomization(opts,
                        File(TRUE, Doc(HeaderPairs \o ResourcesPair(call.existing))),
                        TRUE, call.dirEntries, call.fileEntries)]
    /\ UNCHANGED <<walkVars, call>>

NextUpdate == CallUpdate

SpecUpdate == InitUpdate /\ [][NextUpdate]_vars

\* The case of C25: dir-slash on, the managed list holds the nodes listed,
\* the directories a and b were discovered and no file.
ReorderCase(listed) ==
    /\ ret.n = 1
    /\ opts.DirSlash
    /\ call.existing = listed
    /\ Range(call.dirEntries) = {<<"a">>, <<"b">>}
    /\ call.fileEntries = <<>>

\* C25 as written: with the managed list [b, a] the final list is [a/, b/]
\* and the update is reported as reordered, nothing added, nothing removed.
C25_Original ==
    ReorderCase(<<NewScalar(<<"b">>), NewScalar(<<"a">>)>>)
    => (/\ ret.u.final = <<<<"a", "/">>, <<"b", "/">>>>
        /\ ret.u.stats.Reordered = 1
        /\ ret.u.stats.Added = 0
        /\ ret.u.stats.Removed = 0)

\* C25: with the managed list [b/, a/], the discovered directories a and b,
\* no files and dir-slash on, the final list is [a/, b/] and the update is
\* reported as reordered with nothing added and nothing removed; with the list
\* written [b, a] the final list is the same, a/ and b/ count as added, a and
\* b as removed, and the update is not reported as reordered.
C25_ReorderedWhenListedWithSlash ==
    /\ ReorderCase(<<NewScalar(<<"b", "/">>), NewScalar(<<"a", "/">>)>>)
       => (/\ ret.u.updated
           /\ ret.u.final = <<<<"a", "/">>, <<"b", "/">>>>
           /\ ret.u.stats.Reordered = 1
           /\ ret.u.stats.Added = 0
           /\ ret.u.stats.Removed = 0)
    /\ ReorderCase(<<NewScalar(<<"b">>), NewScalar(<<"a">>)>>)
       => (/\ ret.u.updated
           /\ ret.u.final = <<<<"a", "/">>, <<"b", "/">>>>
           /\ ret.u.stats.Reordered = 0
           /\ ret.u.stats.Added = 2
           /\ ret.u.stats.Removed = 2)

\* The list [b/, a/] was reconciled with the directories discovered as b, a.
C25_Witness ==
    /\ ReorderCase(<<NewScalar(<<"b", "/">>), NewScalar(<<"a", "/">>)>>)
    /\ call.dirEntries = <<<<"b">>, <<"a">>>>
    /\ ret.u.updated
    /\ ManagedList(ret.u.file) = <<<<"a", "/">>, <<"b", "/">>>>
    /\ ret.u.stats.Reordered = 1

\* The scalar nodes of the list.
ScalarNodes(content) == SelectSeq(content, LAMBDA n : n.Kind = "scalar")
\* The node of the first occurrence of value v in the list.
FirstNode(content, v) ==
    ScalarNodes(content)[CHOOSE i \in 1..Len(ScalarNodes(content)) :
                            /\ ScalarNodes(content)[i].Value = v
                            /\ \A j \in 1..(i - 1) : ScalarNodes(content)[j].Value # v]

\* C26: collectExistingResources returns the scalar values of the list in
\* first-occurrence order, each once, and a map from each of them to the node
\* of its first occurrence; a rewrite puts that node in the list for every
\* final entry whose value the list held.
C26_NodesOfFirstOccurrence ==
    ret.n = 1 =>
        /\ ret.got.order = FirstOccurrences(ScalarValues(call.existing))
        /\ NoDup(ret.got.order)
        /\ DOMAIN ret.got.nodes = Range(ret.got.order)
        /\ \A v \in Range(ret.got.order) : ret.got.nodes[v] = FirstNode(call.existing, v)
        /\ ret.u.updated =>
              \A i \in 1..Len(ManagedNodes(ret.u.file)) :
                  ManagedNodes(ret.u.file)[i].Value \in Range(ret.got.order) =>
                      ManagedNodes(ret.u.file)[i]
                          = FirstNode(call.existing, ManagedNodes(ret.u.file)[i].Value)

-----------------------------------------------------------------------------
(* Claims on Spec: the order of the walk *)

\* The file operations a step adds to the log (Process starts a new log).
NewOps ==
    IF io' = io THEN <<>>
    ELSE IF stack = <<>> THEN io'
    ELSE SubSeq(io', Len(io) + 1, Len(io'))

\* A step works on one directory.
OneDirectoryPerStep ==
    \A i, j \in 1..Len(NewOps) : NewOps[i].dir = NewOps[j].dir

\* The frames are one chain of calls: the base at the bottom, each frame the
\* directory of a child of the frame under it.
OneCallChain ==
    /\ stack # <<>> => stack[Len(stack)].dir = <<>>
    /\ \A k \in 1..(Len(stack) - 1) : IsChildOf(stack[k].dir, stack[k + 1].dir)

\* C27: the walk is sequential, depth-first and pre-order: every operation on
\* a directory, the write of its manifest included, comes before the first
\* operation on anything below it; of two directories of one parent the one
\* the listing returns first is walked first, with everything below it,
\* before the other is started; a step works on one directory and the calls
\* in progress form one chain.
C27_SequentialPreOrder ==
    /\ [](/\ OneCallChain
          /\ \A i, j \in 1..Len(io) :
                /\ StrictlyUnder(io[j].dir, io[i].dir) => i < j
                /\ (\E k \in 1..Len(io[i].dir) :
                       /\ k <= Len(io[j].dir)
                       /\ SubSeq(io[i].dir, 1, k - 1) = SubSeq(io[j].dir, 1, k - 1)
                       /\ StrLess(io[i].dir[k], io[j].dir[k])) => i < j
                /\ (io[i].dir = io[j].dir /\ io[i].op = "readdir" /\ io[j].op = "readdir")
                      => i = j)
    /\ [][OneDirectoryPerStep]_vars

HasOp(op, dir) == \E i \in 1..Len(io) : io[i].op = op /\ io[i].dir = dir
OpIndex(op, dir) == CHOOSE i \in 1..Len(io) : io[i].op = op /\ io[i].dir = dir

\* A run over .h/, app/, app/db/ and db/: the manifest of app/ was created
\* before app/db/ was read, and app/db/ was read before db/.
C27_Witness ==
    /\ RunEnded
    /\ run.pc # "failed"
    /\ HasOp("readdir", <<S_hid>>)
    /\ HasOp("create", <<S_app>>)
    /\ HasOp("readdir", <<S_app, S_db>>)
    /\ HasOp("create", <<S_app, S_db>>)
    /\ HasOp("readdir", <<S_db>>)
    /\ OpIndex("readdir", <<S_hid>>) < OpIndex("create", <<S_app>>)
    /\ OpIndex("create", <<S_app>>) < OpIndex("readdir", <<S_app, S_db>>)
    /\ OpIndex("readdir", <<S_app, S_db>>) < OpIndex("create", <<S_app, S_db>>)
    /\ OpIndex("create", <<S_app, S_db>>) < OpIndex("readdir", <<S_db>>)

-----------------------------------------------------------------------------
(* Claims on Spec: directories matched by a glob rule *)

\* The entry at path q got as far as the skip rules and the first rule that
\* matches it is a glob rule.
GlobSkipped(g, e) ==
    /\ e.isDir
    /\ ReachesRules(g, e)
    /\ FirstRule(Append(g.dir, e.name)).skip
    /\ FirstRule(Append(g.dir, e.name)).mode = skipModeGlob

\* C28: a directory whose first matching skip rule is a glob rule is not in
\* the resource list of its parent and not queued for recursion, nothing at
\* or below it is visited, and one skip event is emitted for it, with the
\* pattern of the rule.
C28_GlobMatchedDirectoryExcluded ==
    \A g \in Frames :
        \A e \in EntriesOf(g) :
            GlobSkipped(g, e) =>
                /\ UnlistedInParent(Append(g.dir, e.name))
                /\ Unvisited(Append(g.dir, e.name))
                /\ Cardinality({i \in 1..Len(events) :
                                   /\ events[i].ev = "skipped"
                                   /\ events[i].entry = Append(g.dir, e.name)}) = 1
                /\ \A x \in SkipEvents :
                      x.entry = Append(g.dir, e.name) =>
                          /\ x.reason = "pattern"
                          /\ x.pattern = FirstRule(Append(g.dir, e.name)).pattern

\* The rule d? has matched db/ at the base and app/db/: the run ended, app/
\* was scanned, neither db/ was, and the manifest of the base does not list db/.
C28_Witness ==
    /\ RunEnded
    /\ Len(results) = 1
    /\ opts.Skip = <<P_glob_d>>
    /\ FirstRule(<<S_db>>).mode = skipModeGlob
    /\ FirstRule(<<S_app, S_db>>).mode = skipModeGlob
    /\ PatternSkipped(<<S_db>>)
    /\ <<S_app>> \in ScannedDirs
    /\ <<S_db>> \notin ScannedDirs
    /\ <<S_app, S_db>> \notin ScannedDirs
    /\ Written(<<>>)
    /\ Listed(<<S_app>>) \in Range(ManagedList(disk[<<>>][KustomizationYaml]))
    /\ Listed(<<S_db>>) \notin Range(ManagedList(disk[<<>>][KustomizationYaml]))

-----------------------------------------------------------------------------
(* Claims on Spec: an update carries a change *)

\* Stats in which every update may carry a reorder and nothing is counted
\* without an update.
CarriesChange(st) ==
    /\ st.Reordered <= st.Updated
    /\ st.Updated = 0 => (st.Added = 0 /\ st.Removed = 0 /\ st.Reordered = 0)

\* The stats walkDir starts from for the directory it has just reconciled
\* (the frame a step pushes).
OwnStats ==
    Len(stack') = Len(stack) + 1 =>
        /\ stack'[1].updated =>
              /\ stack'[1].stats.Updated = 1 /\ stack'[1].stats.NoOp = 0
              /\ \/ stack'[1].stats.Added > 0
                 \/ stack'[1].stats.Removed > 0
                 \/ stack'[1].stats.Reordered = 1
        /\ ~stack'[1].updated =>
              /\ stack'[1].stats.Updated = 0
              /\ stack'[1].stats.Added = 0
              /\ stack'[1].stats.Removed = 0
              /\ stack'[1].stats.Reordered = 0

\* C29: a directory whose manifest is rewritten has something added, removed
\* or reordered, and the update is logged with that change; a directory left
\* as it was counts 0 added, removed and reordered; so in the stats of every
\* subtree, of every run and in Run's total reordered <= updated, and all
\* three are 0 when updated is 0.
C29_UpdateCarriesChange ==
    /\ [](/\ \A e \in Events : e.ev = "updated" => e.change # <<>>
          /\ \A f \in Frames : CarriesChange(f.stats)
          /\ \A k \in 1..Len(results) : CarriesChange(results[k])
          /\ CarriesChange(run.total))
    /\ [][OwnStats]_vars

\* A run in which the manifest of one directory was rewritten for its order
\* alone, and the second run, which changed nothing.
C29_Witness ==
    /\ RunEnded
    /\ Len(results) = 2
    /\ results[1].Updated >= 2
    /\ results[1].Reordered >= 1
    /\ results[1].Added >= 1
    /\ results[1].Removed >= 1
    /\ results[2].Updated = 0
    /\ results[2].NoOp >= 2

C29_WitnessOrderOnly ==
    \E e \in Events : e.ev = "updated" /\ e.change = <<"order">>

-----------------------------------------------------------------------------
(* Claims on FairSpec: termination and the set of scanned directories *)

\* The directories of the tree below the base.
ClaimTreeDirs ==
    fs.dirs \cup {Append(x[1], x[2]) :
                    x \in {y \in (DOMAIN disk) \X ManifestNames : disk[y[1]][y[2]].kind = "dir"}}
\* Directory p is not descended into: its name is reserved or dot-excluded, it
\* is ignored, or the rule that matches it is Exact, Glob or Children.
ClaimStopped(p) ==
    \/ ClaimReserved(Last(p))
    \/ ClaimDotDropped(Last(p))
    \/ opts.UseGitIgnore /\ MatchedOnChain(SubSeq(p, 1, Len(p) - 1), p, TRUE)
    \/ /\ FirstRule(p).skip
       /\ FirstRule(p).mode \in {skipModeExact, skipModeGlob, skipModeChildren}
\* The base and every directory reached through directories not stopped.
ClaimReach ==
    {<<>>} \cup {p \in ClaimTreeDirs :
                    \A k \in 1..Len(p) : ~ClaimStopped(SubSeq(p, 1, k))}

ScanCount(d) == Cardinality({i \in 1..Len(io) : io[i].op = "readdir" /\ io[i].dir = d})

\* C30: a call of Process returns; the directories it scans are the base and
\* the directories reached from it through directories none of which is
\* reserved-named, dot-excluded, ignored or matched by an Exact, Glob or
\* Children rule: never another one, and all of them when the call returns
\* without an error; each is scanned once; the base is tested against no rule,
\* is scanned and has its manifest reconciled.
C30_TerminatesAndScansReachable ==
    /\ (stack # <<>>) ~> (stack = <<>>)
    /\ [][CanStep /\ ctx' = ctx => (stack' # stack \/ run' # run)]_vars
    /\ [](/\ ScannedDirs \subseteq ClaimReach
          /\ \A d \in ScannedDirs : ScanCount(d) = 1
          /\ (RunEnded /\ run.pc # "failed") => ScannedDirs = ClaimReach
          /\ \A x \in SkipEvents : x.entry # <<>>
          /\ stack # <<>> =>
                /\ ScanCount(<<>>) = 1
                /\ ~stack[Len(stack)].skipUpdate
                /\ ~Reported(<<>>, "trace")
                /\ Reported(<<>>, "updated") \/ Reported(<<>>, "noop"))
\* A run that walked app/ and app/db/ under a subtree rule on app/, passed
\* over .h/ and, by a children rule, nothing; and a run in which a children
\* rule kept app/db/ from being walked.
C30_Witness ==
    /\ RunEnded
    /\ run.pc # "failed"
    /\ ScannedDirs = ClaimReach
    /\ {<<>>, <<S_app>>, <<S_app, S_db>>, <<S_db>>} \subseteq ScannedDirs
    /\ <<S_hid>> \notin ScannedDirs
    /\ FirstRule(<<S_app>>).skip
    /\ FirstRule(<<S_app>>).mode = skipModeSubtree

C30_WitnessChildren ==
    /\ RunEnded
    /\ run.pc # "failed"
    /\ \E p \in ClaimTreeDirs :
          /\ FirstRule(p).skip
          /\ FirstRule(p).mode = skipModeChildren
          /\ SubSeq(p, 1, Len(p) - 1) \in ScannedDirs
          /\ p \notin ScannedDirs

C30_WitnessFailed ==
    /\ run.pc = "failed"
    /\ ScannedDirs # ClaimReach
    /\ ScannedDirs # {}

C30_WitnessReservedDir ==
    /\ RunEnded
    /\ run.pc # "failed"
    /\ \E p \in ClaimTreeDirs : ClaimReserved(Last(p)) /\ SubSeq(p, 1, Len(p) - 1) \in ScannedDirs

-----------------------------------------------------------------------------
(* Cases of C21, C22 and C28 with a character class, an escape and a         *)
(* malformed pattern                                                         *)

\* SpecSkip: the rule \* matches the entry named *.
C22_WitnessEscaped ==
    /\ ret.n = 1
    /\ opts.Skip = <<P_escaped>>
    /\ call.path = <<<<"*">>>>
    /\ ret.m = [skip |-> TRUE, mode |-> skipModeGlob, pattern |-> P_escaped]

\* SpecSkip: the malformed rule d[ does not match the entry named d[, and the
\* rule after it decides for app.
C22_WitnessMalformed ==
    /\ ret.n = 2
    /\ opts.Skip = <<P_malformed, P_app>>
    /\ call.path = <<S_app>>
    /\ Hits = {2}
    /\ Match(P_malformed, P_malformed) = [matched |-> FALSE, err |-> "ErrBadPattern"]

\* Spec: app/ is matched by the rule [a-c]pp and so neither listed nor walked.
C28_WitnessClass ==
    /\ RunEnded
    /\ run.pc # "failed"
    /\ opts.Skip = <<P_class>>
    /\ \E x \in SkipEvents : x.entry = <<S_app>> /\ x.reason = "pattern" /\ x.pattern = P_class
    /\ <<S_app>> \notin ScannedDirs
    /\ <<S_db>> \in ScannedDirs

\* Spec: the rule file of the base holds the malformed line b.[ and the line
\* [c-e]b/: the first matches nothing, the second ignores db/.
C21_WitnessMalformed ==
    /\ RunEnded
    /\ run.pc # "failed"
    /\ opts.UseGitIgnore
    /\ <<>> \in DOMAIN fs.gitignore
    /\ fs.gitignore[<<>>][1] = <<"b", ".", "[">>
    /\ \E x \in SkipEvents : x.entry = <<S_db>> /\ x.reason = "gitignore"
    /\ <<S_app>> \in ScannedDirs
    /\ <<S_db>> \notin ScannedDirs

====
